---- MODULE Spec2Model ----
(***************************************************************************)
(* Verification model of screenforge: colour parsing (color.rs), raster    *)
(* primitives and scene composition (compose.rs), background synthesis     *)
(* (background.rs), device style resolution (devices.rs), overlay          *)
(* resolution (frames.rs) and the multi-scene run (pipeline.rs).           *)
(*                                                                         *)
(* Strings are sequences of UTF-8 bytes; a byte is written as a one        *)
(* character TLA+ string, the two bytes of U+00E9 as "xC3" and "xA9".      *)
(* A colour is a sequence <<r, g, b, a>> of 8-bit channels.                *)
(***************************************************************************)
EXTENDS Integers, Sequences, FiniteSets, TLC

VARIABLES
    hexInput,      \* color.rs: the argument of the parse_hex_rgba call
    hexResult,     \* color.rs: what that call produced
    image,         \* compose.rs: the canvas (RgbaImage) blend_pixel draws on
    imageBefore,   \* the canvas as it was when the last blend_pixel call began
    blendCall,     \* compose.rs: arguments and outcome of the last blend_pixel call
    bgArgs,        \* background.rs: the (cfg, width, height) a scene's background is rendered with
    bgResults,     \* background.rs: what the successive render_background(bgArgs) calls returned
    rng,           \* background.rs: the ChaCha8Rng of the most recent render_background call
    keystream,     \* rand_chacha: which function of (seed, position) the generator computes
    pc,            \* pipeline.rs: where run() stands
    nScenes,       \* pipeline.rs: config.scenes.len()
    sceneIdx,      \* pipeline.rs: position of the loop over config.scenes
    scene,         \* pipeline.rs: id and output filename of the scene being processed
    seenIds,       \* pipeline.rs: seen_ids
    previewItems,  \* pipeline.rs: preview_items
    finalWrites,   \* pipeline.rs: the final images saved so far, in order
    runResult,     \* pipeline.rs: what run() returned
    composeArgs,   \* compose.rs: the copy, phone and overlay file of the compose_scene call
    drawLog,       \* compose.rs: the drawing operations applied to the canvas, in order
    composeResult, \* compose.rs: what compose_scene returned
    callArgs,      \* the arguments a caller hands to one of the pure functions
    callResult     \* what that function returned

colorVars == <<hexInput, hexResult>>
blendVars == <<image, imageBefore, blendCall>>
bgVars == <<bgArgs, bgResults, rng, keystream>>
runVars == <<pc, nScenes, sceneIdx, scene, seenIds, previewItems, finalWrites, runResult>>
composeVars == <<composeArgs, drawLog, composeResult>>
callVars == <<callArgs, callResult>>
vars == <<hexInput, hexResult, image, imageBefore, blendCall,
          bgArgs, bgResults, rng, keystream,
          pc, nScenes, sceneIdx, scene, seenIds, previewItems, finalWrites, runResult,
          composeArgs, drawLog, composeResult, callArgs, callResult>>

----------------------------------------------------------------------------
(* Bounds *)

MaxHexLen == 8          \* longest digit part of a generated colour string
CanvasW == 2            \* width of the canvas of the raster specification
CanvasH == 2            \* height of the canvas of the raster specification
MaxBgW == 2             \* widest background rendered
MaxBgH == 2             \* tallest background rendered
MaxRenders == 2         \* render_background calls made with the same arguments
MaxScenes == 2          \* most scenes in a configuration

----------------------------------------------------------------------------
(* color.rs: parse_hex_rgba *)

NotCalled == [status |-> "not_called"]

HexLower == <<"0","1","2","3","4","5","6","7","8","9","a","b","c","d","e","f">>
HexUpper == <<"0","1","2","3","4","5","6","7","8","9","A","B","C","D","E","F">>

\* char::to_digit(16): the value of an ASCII hex digit, -1 for any other byte
ToDigit16(c) ==
    IF \E i \in 1..16 : HexLower[i] = c
    THEN (CHOOSE i \in 1..16 : HexLower[i] = c) - 1
    ELSE IF \E i \in 1..16 : HexUpper[i] = c
         THEN (CHOOSE i \in 1..16 : HexUpper[i] = c) - 1
         ELSE -1

IsHexDigit(c) == ToDigit16(c) >= 0

\* White_Space bytes that str::trim removes (the ASCII ones)
IsWhitespace(c) == c \in {" ", "\t", "\n"}

\* UTF-8 continuation byte: a slice index pointing at one is not a char boundary
IsContinuation(c) == c = "xA9"

RECURSIVE TrimStart(_)
TrimStart(s) ==
    IF s # <<>> /\ IsWhitespace(Head(s)) THEN TrimStart(Tail(s)) ELSE s

RECURSIVE TrimEnd(_)
TrimEnd(s) ==
    IF s # <<>> /\ IsWhitespace(s[Len(s)])
    THEN TrimEnd(SubSeq(s, 1, Len(s) - 1))
    ELSE s

\* str::trim
Trim(s) == TrimEnd(TrimStart(s))

\* str::strip_prefix('#').unwrap_or(value): at most one '#' is removed
StripHash(s) == IF s # <<>> /\ Head(s) = "#" THEN Tail(s) ELSE s

\* str::is_char_boundary for a 0-based byte index
IsCharBoundary(s, i) ==
    \/ i = 0
    \/ i = Len(s)
    \/ (i < Len(s) /\ ~IsContinuation(s[i + 1]))

\* u8::from_str_radix(src, 16) on a two-byte slice: one leading '+' is
\* consumed as a sign ('-' is not, for an unsigned type), every remaining
\* byte must be a hex digit.  Result: the value, or -1 for Err.
U8FromStrRadix16(src) ==
    LET digits == IF Len(src) > 1 /\ src[1] = "+" THEN Tail(src) ELSE src
        Value[i \in 0..Len(digits)] ==
            IF i = 0 THEN 0 ELSE Value[i - 1] * 16 + ToDigit16(digits[i])
    IN  IF src = <<>> \/ src = <<"+">> \/ src = <<"-">> THEN -1
        ELSE IF \E i \in 1..Len(digits) : ~IsHexDigit(digits[i]) THEN -1
        ELSE IF Value[Len(digits)] > 255 THEN -1
        ELSE Value[Len(digits)]

\* The channels are read left to right; `&hex[a..b]` panics when a or b is
\* not a char boundary, `?` returns the first parse error.
RECURSIVE ParseChannels(_, _, _)
ParseChannels(hex, k, n) ==
    IF k > n THEN [status |-> "ok", channels |-> <<>>]
    ELSE IF ~IsCharBoundary(hex, 2 * k - 2) \/ ~IsCharBoundary(hex, 2 * k)
         THEN [status |-> "panic"]
    ELSE LET v == U8FromStrRadix16(SubSeq(hex, 2 * k - 1, 2 * k))
         IN  IF v < 0 THEN [status |-> "InvalidColorFormat"]
             ELSE LET rest == ParseChannels(hex, k + 1, n)
                  IN  IF rest.status = "ok"
                      THEN [status |-> "ok", channels |-> <<v>> \o rest.channels]
                      ELSE rest

parse_hex_rgba(input) ==
    LET hex == StripHash(Trim(input))
    IN  IF Len(hex) = 6 THEN
            LET p == ParseChannels(hex, 1, 3)
            IN  IF p.status = "ok"
                THEN [status |-> "ok", color |-> p.channels \o <<255>>]
                ELSE p
        ELSE IF Len(hex) = 8 THEN
            LET p == ParseChannels(hex, 1, 4)
            IN  IF p.status = "ok"
                THEN [status |-> "ok", color |-> p.channels]
                ELSE p
        ELSE [status |-> "InvalidColorFormat"]

----------------------------------------------------------------------------
(* compose.rs: the canvas and blend_pixel *)

\* an RgbaImage: a row-major buffer of width * height pixels
NoImage == [width |-> 0, height |-> 0, pixels |-> <<>>]

\* the variables of a component that a specification does not exercise
ColorIdle == hexInput = <<>> /\ hexResult = NotCalled
BlendIdle == image = NoImage /\ imageBefore = NoImage /\ blendCall = NotCalled
BgIdle == bgArgs = NotCalled /\ bgResults = <<>> /\ rng = NotCalled /\ keystream = 1
CallIdle == callArgs = NotCalled /\ callResult = NotCalled
RunIdle ==
    /\ pc = "idle" /\ nScenes = 0 /\ sceneIdx = 0 /\ scene = NotCalled
    /\ seenIds = {} /\ previewItems = <<>> /\ finalWrites = <<>> /\ runResult = NotCalled
    /\ composeArgs = NotCalled /\ drawLog = <<>> /\ composeResult = NotCalled

NewImage(w, h, fill) ==
    [width |-> w, height |-> h, pixels |-> [i \in 1..(w * h) |-> fill]]

\* ImageBuffer::get_pixel and put_pixel index the buffer row-major and panic
\* outside the image
PixelInBounds(img, x, y) == x >= 0 /\ y >= 0 /\ x < img.width /\ y < img.height
PixelIndex(img, x, y) == y * img.width + x + 1
get_pixel(img, x, y) == img.pixels[PixelIndex(img, x, y)]
put_pixel(img, x, y, c) ==
    [img EXCEPT !.pixels = [img.pixels EXCEPT ![PixelIndex(img, x, y)] = c]]

\* (src * alpha + dst * inv).round().clamp(0, 255) as u8 with
\* alpha = a / 255.0 and inv = 1.0 - alpha.  (src*a + dst*(255-a)) / 255 is
\* never within 1/510 of a half (255 * (2k + 1) is odd), so the f32 rounding
\* error cannot change the rounded result and integer arithmetic is exact.
BlendChannel(src, dst, a) ==
    LET num == src * a + dst * (255 - a)
        rounded == (2 * num + 255) \div 510
    IN  IF rounded < 0 THEN 0 ELSE IF rounded > 255 THEN 255 ELSE rounded

\* mutant: only negative coordinates are rejected
BlendTargetOnCanvas_NoUpperCheck(img, x, y) == ~(x < 0 \/ y < 0)

\* the two early returns of blend_pixel
BlendTargetOnCanvas(img, x, y) ==
    /\ ~(x < 0 \/ y < 0)
    /\ ~(x >= img.width \/ y >= img.height)

\* mutant: the blended pixel keeps the alpha of the destination
BlendOut_KeepDstAlpha(src, dst) ==
    << BlendChannel(src[1], dst[1], src[4]),
       BlendChannel(src[2], dst[2], src[4]),
       BlendChannel(src[3], dst[3], src[4]),
       dst[4] >>

\* the pixel blend_pixel stores: "over" compositing, alpha forced to 255
BlendOut(src, dst) ==
    << BlendChannel(src[1], dst[1], src[4]),
       BlendChannel(src[2], dst[2], src[4]),
       BlendChannel(src[3], dst[3], src[4]),
       255 >>

\* blend_pixel: the canvas afterwards and whether the call returned or panicked
blend_pixel(img, x, y, src) ==
    IF ~BlendTargetOnCanvas(img, x, y)
    THEN [image |-> img, outcome |-> "returned"]
    ELSE IF ~PixelInBounds(img, x, y)
         THEN [image |-> img, outcome |-> "panic"]
         ELSE [image |-> put_pixel(img, x, y, BlendOut(src, get_pixel(img, x, y))),
               outcome |-> "returned"]

----------------------------------------------------------------------------
(* Inputs of the raster specification *)

DstColors == { <<0, 0, 0, 0>>, <<10, 200, 255, 255>>, <<255, 128, 1, 77>> }
SrcRgb == { <<0, 0, 0>>, <<255, 255, 255>>, <<9, 130, 201>> }
SrcAlphas == {0, 1, 127, 128, 254, 255}
SrcColors == { rgb \o <<a>> : rgb \in SrcRgb, a \in SrcAlphas }

InitialCanvases ==
    { [width |-> CanvasW, height |-> CanvasH, pixels |-> p] :
        p \in [1..(CanvasW * CanvasH) -> DstColors] }

BlendInit ==
    /\ image \in InitialCanvases
    /\ imageBefore = image
    /\ blendCall = NotCalled
    /\ ColorIdle
    /\ BgIdle
    /\ RunIdle
    /\ CallIdle

\* a drawing primitive calls blend_pixel(image, x, y, src)
BlendPixel(x, y, src) ==
    /\ blendCall = NotCalled
    /\ LET r == blend_pixel(image, x, y, src)
       IN  /\ image' = r.image
           /\ blendCall' = [status |-> "called", x |-> x, y |-> y, src |-> src,
                            outcome |-> r.outcome]
    /\ imageBefore' = image
    /\ UNCHANGED <<colorVars, bgVars, runVars, composeVars, callVars>>

BlendNext ==
    \E x \in -1..CanvasW, y \in -1..CanvasH, src \in SrcColors : BlendPixel(x, y, src)

SpecBlend == BlendInit /\ [][BlendNext]_vars

----------------------------------------------------------------------------
(* Claims about blend_pixel *)

BlendCalled == blendCall.status = "called"
BlendInBounds ==
    /\ BlendCalled
    /\ blendCall.x >= 0 /\ blendCall.x < imageBefore.width
    /\ blendCall.y >= 0 /\ blendCall.y < imageBefore.height

Rgb(c) == <<c[1], c[2], c[3]>>

\* C5: for every in-bounds blend_pixel call, source alpha 0 leaves the
\* destination R, G, B unchanged, source alpha 255 makes them exactly the
\* source R, G, B, and for every source alpha the destination alpha is 255
\* afterwards.
C5_BlendAlphaEndpoints ==
    BlendInBounds =>
        LET before == get_pixel(imageBefore, blendCall.x, blendCall.y)
            after == get_pixel(image, blendCall.x, blendCall.y)
        IN  /\ blendCall.src[4] = 0 => Rgb(after) = Rgb(before)
            /\ blendCall.src[4] = 255 => Rgb(after) = Rgb(blendCall.src)
            /\ after[4] = 255

\* C5 witness: an in-bounds call with source alpha 255 replaced a pixel of
\* another colour and of alpha below 255
C5_Witness ==
    /\ BlendInBounds
    /\ blendCall.src[4] = 255
    /\ get_pixel(imageBefore, blendCall.x, blendCall.y)[4] < 255
    /\ Rgb(get_pixel(imageBefore, blendCall.x, blendCall.y)) # Rgb(blendCall.src)
    /\ get_pixel(image, blendCall.x, blendCall.y) = blendCall.src

\* C6: a blend_pixel call with a coordinate outside the canvas reports no
\* error and leaves every pixel unchanged; an in-bounds call changes no
\* pixel other than (x, y).
C6_BlendFrame ==
    BlendCalled =>
        /\ blendCall.outcome = "returned"
        /\ image.width = imageBefore.width /\ image.height = imageBefore.height
        /\ ~BlendInBounds => image = imageBefore
        /\ BlendInBounds =>
              \A px \in 0..(image.width - 1), py \in 0..(image.height - 1) :
                  (px # blendCall.x \/ py # blendCall.y)
                      => get_pixel(image, px, py) = get_pixel(imageBefore, px, py)

\* C6 witness: a call one past the right edge with an opaque source of a
\* colour not on the canvas returned and left the canvas as it was
C6_Witness ==
    /\ BlendCalled
    /\ blendCall.x = imageBefore.width /\ blendCall.y \in 0..(imageBefore.height - 1)
    /\ blendCall.src[4] = 255
    /\ \A i \in 1..Len(imageBefore.pixels) : imageBefore.pixels[i] # blendCall.src
    /\ blendCall.outcome = "returned"
    /\ image = imageBefore

----------------------------------------------------------------------------
(* Inputs of the colour specification *)

\* bytes a digit part is built from: hex digits of both cases, a non-digit
\* letter, the sign from_str_radix accepts, and a two-byte character
DigitAlphabet == {"F", "0", "a", "z", "+"}

RECURSIVE StringsOver(_, _)
StringsOver(alphabet, n) ==
    IF n = 0 THEN {<<>>}
    ELSE LET shorter == StringsOver(alphabet, n - 1)
         IN  shorter \cup {Append(s, c) : s \in {t \in shorter : Len(t) = n - 1},
                                          c \in alphabet}

HexPrefixes == {<<>>, <<"#">>, <<"#", "#">>, <<" ">>}
HexSuffixes == {<<>>, <<" ">>}

\* digit parts that contain the two-byte character U+00E9
MultiByteBodies ==
    { <<"z", "xC3", "xA9", "0", "0", "0">>,
      <<"xC3", "xA9", "0", "0", "0", "0">>,
      <<"F", "F", "xC3", "xA9", "0", "0">>,
      <<"F", "F", "F", "xC3", "xA9", "0">> }

HexBodies ==
    {s \in StringsOver({"F", "z", "+"}, MaxHexLen) : Len(s) >= MaxHexLen - 3}
      \cup StringsOver(DigitAlphabet, 3)
      \cup {<<"1", "2", "a", "B", "c", "D">>, <<"1", "2", "a", "B", "c", "D", "8", "0">>,
            <<"-", "1", "0", "0", "0", "0">>, <<"+", "+", "0", "0", "0", "0">>}
      \cup MultiByteBodies

HexInputs == {p \o b \o s : p \in HexPrefixes, b \in HexBodies, s \in HexSuffixes}

ColorInit ==
    /\ hexInput \in HexInputs
    /\ hexResult = NotCalled
    /\ BlendIdle
    /\ BgIdle
    /\ RunIdle
    /\ CallIdle

\* a caller hands parse_hex_rgba a string
ParseHex ==
    /\ hexResult = NotCalled
    /\ hexResult' = parse_hex_rgba(hexInput)
    /\ UNCHANGED <<hexInput, blendVars, bgVars, runVars, composeVars, callVars>>

ColorNext == ParseHex

SpecColor == ColorInit /\ [][ColorNext]_vars

----------------------------------------------------------------------------
(* Claims about parse_hex_rgba *)

\* the digit part of an input: the trimmed input without one leading '#'
DigitPart(input) == StripHash(Trim(input))

AllHexDigits(s) == \A i \in 1..Len(s) : IsHexDigit(s[i])

\* the channel the claim expects from the k-th pair of hex digits
ExpectedChannel(s, k) == 16 * ToDigit16(s[2 * k - 1]) + ToDigit16(s[2 * k])

\* C10: parse_hex_rgba accepts 6 or 8 hexadecimal digits with or without one
\* leading '#' (6 digits give alpha 255, 8 digits the parsed alpha) and fails
\* with InvalidColorFormat, returning no colour, for every other length and
\* for every digit part that contains a character that is not a hex digit.
C10_ParseAcceptsOnlyHexDigits ==
    hexResult # NotCalled =>
        LET d == DigitPart(hexInput)
        IN  IF Len(d) \in {6, 8} /\ AllHexDigits(d)
            THEN /\ hexResult.status = "ok"
                 /\ \A k \in 1..(Len(d) \div 2) :
                        hexResult.color[k] = ExpectedChannel(d, k)
                 /\ Len(d) = 6 => hexResult.color[4] = 255
            ELSE hexResult.status = "InvalidColorFormat"

----------------------------------------------------------------------------
(* background.rs: pseudo_noise, on 64-bit words held as 8 little-endian    *)
(* bytes so that the wrapping multiplications keep their width             *)

\* n as u64, for 0 <= n < 2^31
U64(n) ==
    << n % 256, (n \div 256) % 256, (n \div 65536) % 256, (n \div 16777216) % 256,
       0, 0, 0, 0 >>

NoiseMulX == <<21, 124, 74, 127, 185, 121, 55, 158>>    \* 0x9E37_79B9_7F4A_7C15
NoiseMulY == <<79, 235, 212, 39, 61, 174, 178, 194>>    \* 0xC2B2_AE3D_27D4_EB4F
NoiseMix1 == <<185, 229, 228, 28, 109, 71, 88, 191>>    \* 0xBF58_476D_1CE4_E5B9
NoiseMix2 == <<235, 17, 49, 19, 187, 73, 208, 148>>     \* 0x94D0_49BB_1331_11EB

\* column k of the schoolbook product: the sum of a[i] * b[k + 1 - i]
RECURSIVE MulColumn(_, _, _, _)
MulColumn(a, b, k, i) ==
    IF i = 0 THEN 0 ELSE a[i] * b[k + 1 - i] + MulColumn(a, b, k, i - 1)

\* the bytes of the product from byte k on, given the carry into byte k
RECURSIVE MulBytes(_, _, _, _)
MulBytes(a, b, k, carry) ==
    IF k > 8 THEN <<>>
    ELSE LET total == MulColumn(a, b, k, k) + carry
         IN  <<total % 256>> \o MulBytes(a, b, k + 1, total \div 256)

\* u64::wrapping_mul: the carry out of byte 8 is dropped
WrappingMul(a, b) == MulBytes(a, b, 1, 0)

RECURSIVE XorBits(_, _, _)
XorBits(p, q, bits) ==
    IF bits = 0 THEN 0
    ELSE ((p + q) % 2) + 2 * XorBits(p \div 2, q \div 2, bits - 1)

\* a ^ b
Xor64(a, b) ==
    << XorBits(a[1], b[1], 8), XorBits(a[2], b[2], 8), XorBits(a[3], b[3], 8),
       XorBits(a[4], b[4], 8), XorBits(a[5], b[5], 8), XorBits(a[6], b[6], 8),
       XorBits(a[7], b[7], 8), XorBits(a[8], b[8], 8) >>

\* byte i of a >> (8 * q + r)
ShrByte(a, q, r, i) ==
    LET lo == IF i + q <= 8 THEN a[i + q] ELSE 0
        hi == IF i + q + 1 <= 8 THEN a[i + q + 1] ELSE 0
    IN  ((lo \div (2 ^ r)) + hi * (2 ^ (8 - r))) % 256

\* a >> k
Shr64(a, k) ==
    << ShrByte(a, k \div 8, k % 8, 1), ShrByte(a, k \div 8, k % 8, 2),
       ShrByte(a, k \div 8, k % 8, 3), ShrByte(a, k \div 8, k % 8, 4),
       ShrByte(a, k \div 8, k % 8, 5), ShrByte(a, k \div 8, k % 8, 6),
       ShrByte(a, k \div 8, k % 8, 7), ShrByte(a, k \div 8, k % 8, 8) >>

\* v ^= v >> k
XorShift(v, k) == Xor64(v, Shr64(v, k))

\* (v & 1023) of pseudo_noise: the 10 bits n that the result (n / 1023 - 0.5) * 2
\* is computed from
NoiseLow10(v) == (v[1] + 256 * v[2]) % 1024

NoiseBits(seed64, x, y) ==
    NoiseLow10(
        XorShift(
            WrappingMul(
                XorShift(
                    WrappingMul(
                        XorShift(
                            Xor64(Xor64(seed64, WrappingMul(U64(x), NoiseMulX)),
                                  WrappingMul(U64(y), NoiseMulY)),
                            30),
                        NoiseMix1),
                    27),
                NoiseMix2),
            31))

\* pseudo_noise as the exact fraction <<numerator, denominator>> of
\* (n / 1023 - 0.5) * 2, a value in [-1, 1]
pseudo_noise(seed64, x, y) == << 2 * NoiseBits(seed64, x, y) - 1023, 1023 >>

----------------------------------------------------------------------------
(* color.rs: lerp_color *)

\* a fraction t is the pair <<numerator, denominator>>, denominator > 0
ClampUnit(t) == IF t[1] < 0 THEN <<0, 1>> ELSE IF t[1] > t[2] THEN <<1, 1>> ELSE t

\* (a + (b - a) * t).round().clamp(0, 255) as u8 for a clamped t.  The value
\* lies between a and b, so rounding half away from zero is floor(v + 1/2).
lerp_channel(a, b, t) ==
    LET rounded == (2 * (a * t[2] + (b - a) * t[1]) + t[2]) \div (2 * t[2])
    IN  IF rounded < 0 THEN 0 ELSE IF rounded > 255 THEN 255 ELSE rounded

\* all four channels are interpolated, alpha included
lerp_color(a, b, t) ==
    LET clamped == ClampUnit(t)
    IN  << lerp_channel(a[1], b[1], clamped), lerp_channel(a[2], b[2], clamped),
           lerp_channel(a[3], b[3], clamped), lerp_channel(a[4], b[4], clamped) >>

----------------------------------------------------------------------------
(* background.rs: the seeded generator *)

\* rand_chacha is not part of the repository: the ChaCha8 key stream is a
\* fixed function of (seed, position); `keystream` selects which one
KeystreamTables ==
    << <<0, 1, 2, 3, 5, 8, 13, 21, 34, 55, 89>>,
       <<977, 40, 611, 18, 302, 7, 450, 129, 64, 831, 5>> >>

ChaChaWord(seed, pos) ==
    LET table == KeystreamTables[keystream]
    IN  table[((seed + pos) % Len(table)) + 1]

\* mutant: a process-wide generator is used, seeded only on its first use
seed_from_u64_Shared(seed) ==
    IF rng = NotCalled THEN [seed |-> seed, pos |-> 0] ELSE rng

\* ChaCha8Rng::seed_from_u64: a fresh generator at position 0
seed_from_u64(seed) == [seed |-> seed, pos |-> 0]

\* rng.gen_range(lo..hi): a value of lo..hi-1 taken from the key stream
gen_range(g, lo, hi) ==
    [value |-> lo + (ChaChaWord(g.seed, g.pos) % (hi - lo)),
     rng |-> [g EXCEPT !.pos = @ + 1]]

----------------------------------------------------------------------------
(* background.rs: render_mesh, render_stripes, render_background *)

Abs(n) == IF n < 0 THEN -n ELSE n
Max(a, b) == IF a >= b THEN a ELSE b
Min(a, b) == IF a <= b THEN a ELSE b

\* value.clamp(0.0, 255.0) as u8 of the fraction num / den
ClampToU8(num, den) ==
    IF num <= 0 THEN 0 ELSE IF num >= 255 * den THEN 255 ELSE num \div den

\* the channel loop of render_mesh: base = ch * (1 - vignette) + grain
MeshGrain(mixed, D, V, noise) ==
    << ClampToU8(mixed[1] * (100 * D - V) * noise[2] + 1000 * D * noise[1], 100 * D * noise[2]),
       ClampToU8(mixed[2] * (100 * D - V) * noise[2] + 1000 * D * noise[1], 100 * D * noise[2]),
       ClampToU8(mixed[3] * (100 * D - V) * noise[2] + 1000 * D * noise[1], 100 * D * noise[2]),
       mixed[4] >>

\* One pixel of render_mesh.  With wd = max(width - 1, 1), hd likewise:
\* fx = x / wd, dx + dy = N / D, vignette = min(0.16, 0.12 * N / D) = V / (100 D),
\* grain = 10 * noise; a channel is ch * (1 - vignette) + grain.  The f32
\* operations are computed exactly, as fractions.
MeshPixel(c, width, height, seed, x, y) ==
    LET wd == Max(Max(width, 1) - 1, 1)
        hd == Max(Max(height, 1) - 1, 1)
        top == lerp_color(c[1], c[2], <<x, wd>>)
        bottom == lerp_color(c[3], c[4], <<x, wd>>)
        mixed == lerp_color(top, bottom, <<y, hd>>)
        N == Abs(2 * x - wd) * hd + Abs(2 * y - hd) * wd
        D == wd * hd
        V == Min(16 * D, 12 * N)
    IN  MeshGrain(mixed, D, V, pseudo_noise(U64(seed), x, y))

render_mesh(width, height, palette, g, seed) ==
    LET d0 == gen_range(g, 0, Len(palette))
        d1 == gen_range(d0.rng, 0, Len(palette))
        d2 == gen_range(d1.rng, 0, Len(palette))
        d3 == gen_range(d2.rng, 0, Len(palette))
        c == << palette[d0.value + 1], palette[d1.value + 1],
                palette[d2.value + 1], palette[d3.value + 1] >>
    IN  [image |-> [width |-> width, height |-> height,
                    pixels |-> [i \in 1..(width * height) |->
                        MeshPixel(c, width, height, seed,
                                  (i - 1) % width, (i - 1) \div width)]],
         rng |-> d3.rng]

\* the channel loop of render_stripes: value = ch + grain
StripesGrain(mixed, noise) ==
    << ClampToU8(mixed[1] * noise[2] + 8 * noise[1], noise[2]),
       ClampToU8(mixed[2] * noise[2] + 8 * noise[1], noise[2]),
       ClampToU8(mixed[3] * noise[2] + 8 * noise[1], noise[2]),
       mixed[4] >>

\* One pixel of render_stripes: the stripe colour tinted 22% toward the row
\* tint, plus grain = 8 * noise of the seed multiplied by 13.
StripesPixel(c, stripe_size, drift, height, seed, x, y) ==
    LET hd == Max(Max(height, 1) - 1, 1)
        row_tint == lerp_color(c[3], c[1], <<y, hd>>)
        line == ((x + y + drift) \div stripe_size) % 2
        base == IF line = 0 THEN c[1] ELSE c[2]
        mixed == lerp_color(base, row_tint, <<22, 100>>)
    IN  StripesGrain(mixed, pseudo_noise(WrappingMul(U64(seed), U64(13)), x, y))

render_stripes(width, height, palette, g, seed) ==
    LET d0 == gen_range(g, 0, Len(palette))
        d1 == gen_range(d0.rng, 0, Len(palette))
        d2 == gen_range(d1.rng, 0, Len(palette))
        d3 == gen_range(d2.rng, 28, 92)
        d4 == gen_range(d3.rng, 18, 72)
        c == << palette[d0.value + 1], palette[d1.value + 1], palette[d2.value + 1] >>
    IN  [image |-> [width |-> width, height |-> height,
                    pixels |-> [i \in 1..(width * height) |->
                        StripesPixel(c, d3.value, d4.value, height, seed,
                                     (i - 1) % width, (i - 1) \div width)]],
         rng |-> d4.rng]

\* cfg.colors.iter().map(parse_hex_rgba).collect::<Result<Vec<_>>>(): the
\* colours, or the outcome of the first entry that does not parse
RECURSIVE ParsePalette(_)
ParsePalette(colors) ==
    IF colors = <<>> THEN [status |-> "ok", palette |-> <<>>]
    ELSE LET first == parse_hex_rgba(Head(colors))
         IN  IF first.status # "ok" THEN [status |-> first.status]
             ELSE LET rest == ParsePalette(Tail(colors))
                  IN  IF rest.status # "ok" THEN rest
                      ELSE [status |-> "ok", palette |-> <<first.color>> \o rest.palette]

\* mutant: an empty palette is the only one that is too small
PaletteTooSmall_OnlyEmpty(palette) == Len(palette) < 1

\* palette.len() < 2
PaletteTooSmall(palette) == Len(palette) < 2

\* render_background: `result` is what the caller gets, `rng` the generator
\* the call created (NotCalled when it failed before seeding one)
render_background(cfg, width, height) ==
    IF width = 0 \/ height = 0
    THEN [result |-> [status |-> "InvalidCanvasSize"], rng |-> NotCalled]
    ELSE LET parsed == ParsePalette(cfg.colors)
         IN  IF parsed.status # "ok"
             THEN [result |-> [status |-> parsed.status], rng |-> NotCalled]
             ELSE IF PaletteTooSmall(parsed.palette)
             THEN [result |-> [status |-> "InsufficientPalette"], rng |-> NotCalled]
             ELSE LET g == seed_from_u64(cfg.seed)
                      r == IF cfg.template = "Mesh"
                           THEN render_mesh(width, height, parsed.palette, g, cfg.seed)
                           ELSE render_stripes(width, height, parsed.palette, g, cfg.seed)
                  IN  [result |-> [status |-> "ok", image |-> r.image], rng |-> r.rng]

----------------------------------------------------------------------------
(* Inputs of the background specification *)

Color_0E1228 == <<"#", "0", "E", "1", "2", "2", "8">>
Color_1348A5 == <<"#", "1", "3", "4", "8", "A", "5">>
Color_2B8CD6 == <<"#", "2", "B", "8", "C", "D", "6">>
Color_C2E6FF == <<"#", "C", "2", "E", "6", "F", "F">>
Color_Translucent1 == <<"#", "0", "0", "0", "0", "0", "0", "8", "0">>
Color_Translucent2 == <<"#", "F", "F", "F", "F", "F", "F", "4", "0">>
Color_NotHex == <<"z", "z", "0", "0", "0", "0">>
Color_SplitChar == <<"z", "xC3", "xA9", "0", "0", "0">>

\* config.rs default_palette
default_palette == <<Color_0E1228, Color_1348A5, Color_2B8CD6, Color_C2E6FF>>

BgPalettes ==
    { <<>>,
      <<Color_0E1228>>,
      <<Color_NotHex>>,
      <<Color_0E1228, Color_C2E6FF>>,
      <<Color_2B8CD6, Color_NotHex>>,
      <<Color_SplitChar, Color_2B8CD6>>,
      <<Color_Translucent1, Color_Translucent2>>,
      <<Color_C2E6FF, Color_1348A5, Color_Translucent1>>,
      default_palette }

BgSeeds == {1, 42}
BgTemplates == {"Mesh", "Stripes"}

BgInputs ==
    { [cfg |-> [template |-> t, seed |-> sd, colors |-> p], width |-> w, height |-> h] :
        t \in BgTemplates, sd \in BgSeeds, p \in BgPalettes,
        w \in 0..MaxBgW, h \in 0..MaxBgH }

\* the background of another scene, rendered between two renderings of bgArgs
OtherScene ==
    [cfg |-> [template |-> "Stripes", seed |-> 43, colors |-> default_palette],
     width |-> 1, height |-> 1]

BgInit ==
    /\ bgArgs \in BgInputs
    /\ bgResults = <<>>
    /\ rng = NotCalled
    /\ keystream \in 1..Len(KeystreamTables)
    /\ ColorIdle
    /\ BlendIdle
    /\ RunIdle
    /\ CallIdle

\* render_background(bgArgs): the result is recorded together with the
\* generator that the previous call left behind
RenderBackground ==
    /\ Len(bgResults) < MaxRenders
    /\ LET r == render_background(bgArgs.cfg, bgArgs.width, bgArgs.height)
       IN  /\ bgResults' = Append(bgResults, [result |-> r.result, rngBefore |-> rng])
           /\ rng' = IF r.rng = NotCalled THEN rng ELSE r.rng
    /\ UNCHANGED <<bgArgs, keystream, colorVars, blendVars, runVars, composeVars, callVars>>

\* render_background for another scene
RenderOtherScene ==
    /\ Len(bgResults) \in 1..(MaxRenders - 1)
    /\ LET r == render_background(OtherScene.cfg, OtherScene.width, OtherScene.height)
       IN  /\ r.rng # rng
           /\ rng' = r.rng
    /\ UNCHANGED <<bgArgs, bgResults, keystream, colorVars, blendVars, runVars, composeVars, callVars>>

BgNext == RenderBackground \/ RenderOtherScene

SpecBackground == BgInit /\ [][BgNext]_vars

----------------------------------------------------------------------------
(* Claims about render_background *)

BgOk(i) == bgResults[i].result.status = "ok"

\* C7: every pixel of a bitmap returned by render_background has alpha 255,
\* for both templates, every seed, every size and every palette of at least
\* 2 colours that parse_hex_rgba accepts, in the #RRGGBB and the #RRGGBBAA form.
C7_BackgroundOpaque ==
    \A i \in 1..Len(bgResults) :
        BgOk(i) =>
            \A k \in 1..Len(bgResults[i].result.image.pixels) :
                bgResults[i].result.image.pixels[k][4] = 255

\* what the palette strings of bgArgs parse to
BgParsed == ParsePalette(bgArgs.cfg.colors)
BgZeroSize == bgArgs.width = 0 \/ bgArgs.height = 0
BgNoBitmap(i) == "image" \notin DOMAIN bgResults[i].result
BgExactSize(i) ==
    /\ BgOk(i)
    /\ bgResults[i].result.image.width = bgArgs.width
    /\ bgResults[i].result.image.height = bgArgs.height
    /\ Len(bgResults[i].result.image.pixels) = bgArgs.width * bgArgs.height

\* C8 as stated: InvalidCanvasSize whenever width or height is 0,
\* InsufficientPalette whenever the palette has fewer than 2 colours, no
\* bitmap in both cases, and a bitmap of exactly width x height for a
\* non-zero size and at least 2 parsable colours.
C8_Original ==
    \A i \in 1..Len(bgResults) :
        /\ BgZeroSize => bgResults[i].result.status = "InvalidCanvasSize" /\ BgNoBitmap(i)
        /\ Len(bgArgs.cfg.colors) < 2
              => bgResults[i].result.status = "InsufficientPalette" /\ BgNoBitmap(i)
        /\ (~BgZeroSize /\ BgParsed.status = "ok" /\ Len(bgArgs.cfg.colors) >= 2)
              => BgExactSize(i)

\* C8 amended: the checks are made in order.  A zero width or height gives
\* InvalidCanvasSize; otherwise an entry that parse_hex_rgba rejects gives
\* that entry's InvalidColorFormat; otherwise fewer than 2 colours give
\* InsufficientPalette; a failure returns no bitmap; a non-zero size with at
\* least 2 parsable colours gives a bitmap of exactly width x height.
C8_ChecksInOrder ==
    \A i \in 1..Len(bgResults) :
        /\ BgZeroSize => bgResults[i].result.status = "InvalidCanvasSize"
        /\ (~BgZeroSize /\ BgParsed.status = "InvalidColorFormat")
              => bgResults[i].result.status = "InvalidColorFormat"
        /\ (~BgZeroSize /\ BgParsed.status = "ok" /\ Len(bgArgs.cfg.colors) < 2)
              => bgResults[i].result.status = "InsufficientPalette"
        /\ ~BgOk(i) => BgNoBitmap(i)
        /\ (~BgZeroSize /\ BgParsed.status = "ok" /\ Len(bgArgs.cfg.colors) >= 2)
              => BgExactSize(i)

\* C8 witness: a one-colour palette on a non-zero canvas was refused as
\* InsufficientPalette, without a bitmap
C8_Witness ==
    /\ Len(bgResults) >= 1
    /\ ~BgZeroSize
    /\ Len(bgArgs.cfg.colors) = 1
    /\ bgResults[1].result.status = "InsufficientPalette"
    /\ BgNoBitmap(1)

----------------------------------------------------------------------------
(* devices.rs: resolve_phone_style *)

PhoneModels == {"Iphone16Pro", "Iphone16ProMax", "Iphone17Pro", "Iphone17ProMax"}
NoModel == "None"

Color_11151B == <<"#", "1", "1", "1", "5", "1", "B">>
Color_7A7F89 == <<"#", "7", "A", "7", "F", "8", "9">>
Color_767C86 == <<"#", "7", "6", "7", "C", "8", "6">>
Color_686F78 == <<"#", "6", "8", "6", "F", "7", "8">>
Color_666D76 == <<"#", "6", "6", "6", "D", "7", "6">>
Color_F4F8FF == <<"#", "F", "4", "F", "8", "F", "F">>

DEFAULT_CORNER_RADIUS == 88
DEFAULT_INSETS == [top |-> 28, right |-> 20, bottom |-> 28, left |-> 20]
DEFAULT_FRAME_COLOR == Color_11151B
DEFAULT_FRAME_BORDER_WIDTH == 8
DEFAULT_SHADOW_OFFSET_Y == 18
DEFAULT_SHADOW_ALPHA == 74

\* island ratios are kept in thousandths
profile_for(model) ==
    CASE model = "Iphone16Pro" ->
            [corner_radius |-> 116,
             screen_padding |-> [top |-> 54, right |-> 28, bottom |-> 40, left |-> 28],
             frame_color |-> Color_7A7F89, frame_border_width |-> 13,
             shadow_offset_y |-> 24, shadow_alpha |-> 82,
             island |-> [width_ratio |-> 330, height_ratio |-> 50,
                         y_offset_ratio |-> 20, lens_size_ratio |-> 380]]
      [] model = "Iphone16ProMax" ->
            [corner_radius |-> 126,
             screen_padding |-> [top |-> 54, right |-> 30, bottom |-> 42, left |-> 30],
             frame_color |-> Color_767C86, frame_border_width |-> 14,
             shadow_offset_y |-> 25, shadow_alpha |-> 83,
             island |-> [width_ratio |-> 300, height_ratio |-> 47,
                         y_offset_ratio |-> 20, lens_size_ratio |-> 370]]
      [] model = "Iphone17Pro" ->
            [corner_radius |-> 122,
             screen_padding |-> [top |-> 56, right |-> 28, bottom |-> 40, left |-> 28],
             frame_color |-> Color_686F78, frame_border_width |-> 14,
             shadow_offset_y |-> 25, shadow_alpha |-> 84,
             island |-> [width_ratio |-> 310, height_ratio |-> 46,
                         y_offset_ratio |-> 20, lens_size_ratio |-> 360]]
      [] model = "Iphone17ProMax" ->
            [corner_radius |-> 130,
             screen_padding |-> [top |-> 56, right |-> 30, bottom |-> 42, left |-> 30],
             frame_color |-> Color_666D76, frame_border_width |-> 15,
             shadow_offset_y |-> 26, shadow_alpha |-> 85,
             island |-> [width_ratio |-> 290, height_ratio |-> 44,
                         y_offset_ratio |-> 20, lens_size_ratio |-> 350]]

\* choose_u32, choose_i32, choose_u8
choose_u32(input, default_value, device_value) ==
    IF input = default_value THEN device_value ELSE input

\* mutant: the insets are replaced only as a whole
choose_insets_Whole(input, default_value, device_value) ==
    IF input = default_value THEN device_value ELSE input

choose_insets(input, default_value, device_value) ==
    [top |-> choose_u32(input.top, default_value.top, device_value.top),
     right |-> choose_u32(input.right, default_value.right, device_value.right),
     bottom |-> choose_u32(input.bottom, default_value.bottom, device_value.bottom),
     left |-> choose_u32(input.left, default_value.left, device_value.left)]

\* u8::to_ascii_lowercase on the letters a colour string is made of
ToAsciiLower(c) ==
    IF \E i \in 11..16 : HexUpper[i] = c
    THEN HexLower[CHOOSE i \in 11..16 : HexUpper[i] = c]
    ELSE c

\* str::eq_ignore_ascii_case
EqIgnoreAsciiCase(a, b) ==
    /\ Len(a) = Len(b)
    /\ \A i \in 1..Len(a) : ToAsciiLower(a[i]) = ToAsciiLower(b[i])

choose_color(input, default_value, device_value) ==
    IF EqIgnoreAsciiCase(input, default_value) THEN device_value ELSE input

NoIsland == [width_ratio |-> 0, height_ratio |-> 0, y_offset_ratio |-> 0, lens_size_ratio |-> 0]

resolve_phone_style(phone) ==
    IF phone.model = NoModel
    THEN [corner_radius |-> phone.corner_radius,
          screen_padding |-> phone.screen_padding,
          frame_color |-> phone.frame_color,
          frame_border_width |-> phone.frame_border_width,
          shadow_offset_y |-> phone.shadow_offset_y,
          shadow_alpha |-> phone.shadow_alpha,
          has_island |-> FALSE, island |-> NoIsland]
    ELSE LET profile == profile_for(phone.model)
         IN  [corner_radius |->
                  choose_u32(phone.corner_radius, DEFAULT_CORNER_RADIUS, profile.corner_radius),
              screen_padding |->
                  choose_insets(phone.screen_padding, DEFAULT_INSETS, profile.screen_padding),
              frame_color |->
                  choose_color(phone.frame_color, DEFAULT_FRAME_COLOR, profile.frame_color),
              frame_border_width |->
                  choose_u32(phone.frame_border_width, DEFAULT_FRAME_BORDER_WIDTH,
                             profile.frame_border_width),
              shadow_offset_y |->
                  choose_u32(phone.shadow_offset_y, DEFAULT_SHADOW_OFFSET_Y,
                             profile.shadow_offset_y),
              shadow_alpha |->
                  choose_u32(phone.shadow_alpha, DEFAULT_SHADOW_ALPHA, profile.shadow_alpha),
              has_island |-> TRUE, island |-> profile.island]

----------------------------------------------------------------------------
(* frames.rs: resolve_overlay_for_compose *)

NoOverlay == [source |-> "none"]

\* mutant: the model's default overlay is used without looking for the file
resolve_overlay_for_compose_NoExistsCheck(phone, overlay_file) ==
    IF phone.overlay = "explicit" THEN [source |-> "explicit"]
    ELSE IF phone.model = NoModel THEN NoOverlay
    ELSE [source |-> "model_default"]

\* phone.overlay says whether the scene configures an overlay path;
\* overlay_file is the state of the file at the candidate path ("missing",
\* "valid" or "corrupt").  An explicit path is taken as it is, the model's
\* default path only if it exists.
resolve_overlay_for_compose(phone, overlay_file) ==
    IF phone.overlay = "explicit" THEN [source |-> "explicit"]
    ELSE IF phone.model = NoModel THEN NoOverlay
    ELSE IF overlay_file # "missing" THEN [source |-> "model_default"]
    ELSE NoOverlay

----------------------------------------------------------------------------
(* compose.rs: compose_scene, one step per drawing stage *)

Ok == [status |-> "ok"]

\* a failure: its kind, the stage of run() it arose in, and whether the
\* message names the scene
Failure(kind, stage, names_scene) ==
    [status |-> "error", kind |-> kind, stage |-> stage, names_scene |-> names_scene]

\* u32::saturating_sub; saturating_add stays below u32::MAX for the values used
SaturatingSub(a, b) == IF a >= b THEN a - b ELSE 0
SaturatingAdd(a, b) == a + b

\* draw_copy: the colour is parsed and the fonts are loaded before any glyph
\* is drawn.  copy.kind is "none" for a scene without copy; copy.fonts says
\* whether the embedded font data loads.
draw_copy(copy) ==
    IF parse_hex_rgba(copy.color).status # "ok"
    THEN Failure("InvalidColorFormat", "compose", FALSE)
    ELSE IF ~copy.fonts THEN Failure("FontLoadFailure", "compose", FALSE)
    ELSE Ok

\* the overlay-specific inset adjustment <<top, side>>
inset_adjust(phone, overlay) ==
    IF overlay.source = "none" THEN <<0, 0>>
    ELSE IF phone.model = "Iphone16ProMax" THEN <<12, 6>>
    ELSE IF phone.model = "Iphone17ProMax" THEN <<10, 5>>
    ELSE <<0, 0>>

\* mutant: the insets move the screen but do not shrink it
screen_rect_FrameSize(phone, style, overlay) ==
    LET adjust == inset_adjust(phone, overlay)
        inset_left == SaturatingSub(SaturatingAdd(style.screen_padding.left,
                                                  style.frame_border_width), adjust[2])
        inset_top == SaturatingSub(SaturatingAdd(style.screen_padding.top,
                                                 style.frame_border_width), adjust[1])
    IN  [screen_w |-> phone.width,
         screen_h |-> phone.height,
         screen_x |-> SaturatingAdd(phone.x, inset_left),
         screen_y |-> SaturatingAdd(phone.y, inset_top)]

\* the insets and the screen rectangle computed by compose_scene
screen_rect(phone, style, overlay) ==
    LET adjust == inset_adjust(phone, overlay)
        inset_left == SaturatingSub(SaturatingAdd(style.screen_padding.left,
                                                  style.frame_border_width), adjust[2])
        inset_right == SaturatingSub(SaturatingAdd(style.screen_padding.right,
                                                   style.frame_border_width), adjust[2])
        inset_top == SaturatingSub(SaturatingAdd(style.screen_padding.top,
                                                 style.frame_border_width), adjust[1])
        inset_bottom == SaturatingAdd(style.screen_padding.bottom, style.frame_border_width)
    IN  [screen_w |-> SaturatingSub(phone.width, SaturatingAdd(inset_left, inset_right)),
         screen_h |-> SaturatingSub(phone.height, SaturatingAdd(inset_top, inset_bottom)),
         screen_x |-> SaturatingAdd(phone.x, inset_left),
         screen_y |-> SaturatingAdd(phone.y, inset_top)]

\* mutant: the screenshot is refused only when both dimensions are 0
no_screen_space_BothZero(rect) == rect.screen_w = 0 /\ rect.screen_h = 0

\* screen_w == 0 || screen_h == 0
no_screen_space(rect) == rect.screen_w = 0 \/ rect.screen_h = 0

\* (phone.width as f32 * ratio).round() as u32, the ratio in thousandths
overlay_radius_ratio(model) ==
    CASE model = "Iphone16Pro" -> 160
      [] model = "Iphone17Pro" -> 145
      [] model = "Iphone16ProMax" -> 160
      [] model = "Iphone17ProMax" -> 155
      [] OTHER -> 145

screenshot_radius(phone, style, overlay) ==
    IF overlay.source # "none"
    THEN (2 * phone.width * overlay_radius_ratio(phone.model) + 1000) \div 2000
    ELSE SaturatingSub(style.corner_radius, style.frame_border_width + 2)

Draw(op, x, y, w, h) == [op |-> op, x |-> x, y |-> y, w |-> w, h |-> h]

\* mutant: a failed step is not propagated
Propagate_Ignore(r, next_pc) == next_pc

\* the `?` operator and bail!: a failure ends run()
Propagate(r, next_pc) == IF r.status = "ok" THEN next_pc ELSE "done"

\* mutant: the programmatic frame is drawn under an overlay as well
draws_programmatic_frame_Always(overlay) == TRUE

\* if overlay.is_none() { shadow, frame body, tone bands }
draws_programmatic_frame(overlay) == overlay.source = "none"

\* apply_phone_overlay: image::open on the overlay path
apply_phone_overlay(overlay_file) ==
    IF overlay_file = "valid" THEN Ok
    ELSE Failure("OverlayDecodeFailure", "compose", TRUE)

\* The part of compose_scene after the style and the overlay are resolved and
\* the programmatic frame, if any, is drawn: log holds the operations drawn so far.
compose_screen(sc, style, overlay, overlay_file, log) ==
    LET phone == sc.phone
        rect == screen_rect(phone, style, overlay)
        radius == screenshot_radius(phone, style, overlay)
        blit == log \o <<Draw("screenshot", rect.screen_x, rect.screen_y,
                              rect.screen_w, rect.screen_h)>>
    IN  IF no_screen_space(rect)
        THEN [result |-> Failure("NoScreenSpace", "compose", TRUE), log |-> log]
        ELSE IF overlay.source # "none"
        THEN LET applied == apply_phone_overlay(overlay_file)
             IN  IF applied.status # "ok"
                 THEN [result |-> applied, log |-> blit]
                 ELSE [result |-> [status |-> "ok", screenshot_radius |-> radius],
                       log |-> blit \o <<Draw("overlay", phone.x, phone.y,
                                              phone.width, phone.height)>>]
        ELSE IF style.has_island
        THEN [result |-> [status |-> "ok", screenshot_radius |-> radius],
              log |-> blit \o <<Draw("island", rect.screen_x, rect.screen_y,
                                     rect.screen_w, rect.screen_h)>>]
        ELSE [result |-> [status |-> "ok", screenshot_radius |-> radius], log |-> blit]

\* The part of compose_scene from the phone size check to the frame.
compose_frame(sc, overlay_file, log) ==
    LET phone == sc.phone
        style == resolve_phone_style(phone)
        overlay == resolve_overlay_for_compose(phone, overlay_file)
    IN  IF phone.width = 0 \/ phone.height = 0
        THEN [result |-> Failure("InvalidPhoneSize", "compose", TRUE), log |-> log]
        ELSE IF draws_programmatic_frame(overlay)
        THEN IF parse_hex_rgba(style.frame_color).status # "ok"
             THEN [result |-> Failure("InvalidColorFormat", "compose", FALSE), log |-> log]
             ELSE compose_screen(sc, style, overlay, overlay_file,
                      log \o <<Draw("shadow", phone.x, phone.y + style.shadow_offset_y,
                                    phone.width, phone.height),
                               Draw("frame", phone.x, phone.y, phone.width, phone.height),
                               Draw("tones", phone.x, phone.y, phone.width, phone.height)>>)
        ELSE compose_screen(sc, style, overlay, overlay_file, log)

\* compose_scene: the result and the drawing operations applied to the
\* background, in the order they are applied.  overlay_file is the state of the
\* file at the overlay path, fonts says whether the embedded fonts load.
compose_scene(sc, overlay_file, fonts) ==
    IF sc.copy.kind = "none"
    THEN compose_frame(sc, overlay_file, <<>>)
    ELSE LET drawn == draw_copy([color |-> sc.copy.color, fonts |-> fonts])
         IN  IF drawn.status # "ok"
             THEN [result |-> drawn, log |-> <<>>]
             ELSE compose_frame(sc, overlay_file,
                      <<Draw("text", 0, 0, sc.background.width, sc.background.height)>>)

----------------------------------------------------------------------------
(* The scenes of a configuration *)

SceneIds == {"a", "b"}
Filenames == {"one.png", "two.png"}

SceneBackgrounds ==
    { [cfg |-> [template |-> "Mesh", seed |-> 1, colors |-> default_palette],
       width |-> 1, height |-> 1],
      [cfg |-> [template |-> "Stripes", seed |-> 42, colors |-> default_palette],
       width |-> 0, height |-> 1],
      [cfg |-> [template |-> "Mesh", seed |-> 1, colors |-> <<Color_0E1228>>],
       width |-> 1, height |-> 1] }

SceneCopies ==
    { [kind |-> "none", color |-> Color_F4F8FF],
      [kind |-> "some", color |-> Color_F4F8FF],
      [kind |-> "some", color |-> Color_NotHex] }

PhoneX == 100
PhoneY == 200
CustomInsets == [top |-> 10, right |-> 10, bottom |-> 10, left |-> 10]

\* frame sizes around the points where the insets of the device profiles
\* use up the width or the height
PhoneSizes ==
    { <<0, 800>>, <<400, 0>>, <<400, 800>>, <<56, 800>>, <<57, 800>>,
      <<88, 800>>, <<90, 800>>, <<400, 124>> }

PhoneConfig(model, size, padding, frame_color, overlay) ==
    [model |-> model, x |-> PhoneX, y |-> PhoneY, width |-> size[1], height |-> size[2],
     corner_radius |-> DEFAULT_CORNER_RADIUS, screen_padding |-> padding,
     frame_color |-> frame_color, frame_border_width |-> DEFAULT_FRAME_BORDER_WIDTH,
     shadow_offset_y |-> DEFAULT_SHADOW_OFFSET_Y, shadow_alpha |-> DEFAULT_SHADOW_ALPHA,
     overlay |-> overlay]

Phones ==
    { PhoneConfig(m, s, DEFAULT_INSETS, DEFAULT_FRAME_COLOR, o) :
        m \in PhoneModels \cup {NoModel}, s \in PhoneSizes, o \in {"none", "explicit"} }
    \cup
    { PhoneConfig(m, <<400, 800>>, CustomInsets, Color_NotHex, o) :
        m \in {NoModel, "Iphone17Pro"}, o \in {"none", "explicit"} }

Scenes ==
    { [id |-> i, filename |-> f, background |-> b, copy |-> c, phone |-> p] :
        i \in SceneIds, f \in Filenames, b \in SceneBackgrounds,
        c \in SceneCopies, p \in Phones }

OverlayFiles == {"missing", "valid", "corrupt"}

----------------------------------------------------------------------------
(* pipeline.rs: run *)

\* the failure run() returns, with the position of the scene it arose in
RunFailure(r, index) ==
    [status |-> "error", kind |-> r.kind, stage |-> r.stage,
     names_scene |-> r.names_scene, scene_index |-> index]

ResultAfter(r) == IF r.status = "ok" THEN runResult ELSE RunFailure(r, sceneIdx)

IoResult(ok, kind, stage, names_scene) ==
    IF ok THEN Ok ELSE Failure(kind, stage, names_scene)

Init ==
    /\ pc = "start"
    /\ nScenes \in 0..MaxScenes
    /\ sceneIdx = 0
    /\ scene = NotCalled
    /\ seenIds = {}
    /\ previewItems = <<>>
    /\ finalWrites = <<>>
    /\ runResult = NotCalled
    /\ composeArgs = NotCalled
    /\ drawLog = <<>>
    /\ composeResult = NotCalled
    /\ ColorIdle
    /\ BlendIdle
    /\ BgIdle
    /\ CallIdle

\* Config::from_path, the empty check and the two create_dir_all calls
Start(load_ok, dirs_ok) ==
    /\ pc = "start"
    /\ LET r == IF ~load_ok THEN Failure("ConfigLoadFailure", "load", FALSE)
                ELSE IF nScenes = 0 THEN Failure("NoScenes", "load", FALSE)
                ELSE IoResult(dirs_ok, "CreateDirFailure", "load", FALSE)
       IN  /\ pc' = Propagate(r, "loop")
           /\ runResult' = ResultAfter(r)
    /\ UNCHANGED <<nScenes, sceneIdx, scene, seenIds, previewItems, finalWrites>>
    /\ UNCHANGED <<composeVars, colorVars, blendVars, bgVars, callVars>>

\* the head of the loop body: the next scene and the duplicate id check
NextScene(s) ==
    /\ pc = "loop"
    /\ sceneIdx < nScenes
    /\ sceneIdx' = sceneIdx + 1
    /\ scene' = s
    /\ seenIds' = seenIds \cup {s.id}
    /\ LET r == IoResult(s.id \notin seenIds, "DuplicateSceneId", "scene", TRUE)
       IN  /\ pc' = Propagate(r, "capture")
           /\ runResult' = IF r.status = "ok" THEN runResult
                           ELSE RunFailure(r, sceneIdx + 1)
    /\ UNCHANGED <<nScenes, previewItems, finalWrites>>
    /\ UNCHANGED <<composeVars, colorVars, blendVars, bgVars, callVars>>

\* capture_scene(scene, config_dir, raw_path)
Capture(ok) ==
    /\ pc = "capture"
    /\ LET r == IoResult(ok, "CaptureFailure", "capture", TRUE)
       IN  /\ pc' = Propagate(r, "open_raw")
           /\ runResult' = ResultAfter(r)
    /\ UNCHANGED <<nScenes, sceneIdx, scene, seenIds, previewItems, finalWrites>>
    /\ UNCHANGED <<composeVars, colorVars, blendVars, bgVars, callVars>>

\* image::open(raw_path)
OpenRaw(ok) ==
    /\ pc = "open_raw"
    /\ LET r == IoResult(ok, "RawOpenFailure", "open_raw", FALSE)
       IN  /\ pc' = Propagate(r, "background")
           /\ runResult' = ResultAfter(r)
    /\ UNCHANGED <<nScenes, sceneIdx, scene, seenIds, previewItems, finalWrites>>
    /\ UNCHANGED <<composeVars, colorVars, blendVars, bgVars, callVars>>

\* render_background(scene.background, scene.output.width, scene.output.height)
Background ==
    /\ pc = "background"
    /\ LET rendered == render_background(scene.background.cfg, scene.background.width,
                                         scene.background.height).result
           r == IF rendered.status = "ok" THEN Ok
                ELSE Failure(rendered.status, "background", FALSE)
       IN  /\ pc' = Propagate(r, "compose")
           /\ runResult' = ResultAfter(r)
    /\ UNCHANGED <<nScenes, sceneIdx, scene, seenIds, previewItems, finalWrites>>
    /\ UNCHANGED <<composeVars, colorVars, blendVars, bgVars, callVars>>

\* compose_scene(raw_img, scene, background, config_dir)
Compose(overlay_file, fonts) ==
    /\ pc = "compose"
    /\ LET composed == compose_scene(scene, overlay_file, fonts)
       IN  /\ composeArgs' = [scene |-> scene, overlay_file |-> overlay_file,
                              fonts |-> fonts]
           /\ drawLog' = composed.log
           /\ composeResult' = composed.result
           /\ pc' = Propagate(composed.result, "save")
           /\ runResult' = ResultAfter(composed.result)
    /\ UNCHANGED <<nScenes, sceneIdx, scene, seenIds, previewItems, finalWrites>>
    /\ UNCHANGED <<colorVars, blendVars, bgVars, callVars>>

\* final_img.save(final_path) and preview_items.push; the scene and its
\* composition go out of scope at the end of the loop body
Save(ok) ==
    /\ pc = "save"
    /\ LET r == IoResult(ok, "WriteFailure", "save", FALSE)
       IN  /\ pc' = Propagate(r, "loop")
           /\ runResult' = ResultAfter(r)
           /\ finalWrites' = IF ok
                             THEN Append(finalWrites, [scene_index |-> sceneIdx,
                                                       filename |-> scene.filename])
                             ELSE finalWrites
           /\ previewItems' = IF ok
                              THEN Append(previewItems, [scene_id |-> scene.id,
                                                         filename |-> scene.filename])
                              ELSE previewItems
           /\ scene' = IF ok THEN NotCalled ELSE scene
           /\ composeArgs' = IF ok THEN NotCalled ELSE composeArgs
           /\ drawLog' = IF ok THEN <<>> ELSE drawLog
           /\ composeResult' = IF ok THEN NotCalled ELSE composeResult
    /\ UNCHANGED <<nScenes, sceneIdx, seenIds>>
    /\ UNCHANGED <<colorVars, blendVars, bgVars, callVars>>

\* write_index(preview_path, preview_items) and the summary
WriteIndex(ok) ==
    /\ pc = "loop"
    /\ sceneIdx = nScenes
    /\ pc' = "done"
    /\ runResult' = IF ok THEN [status |-> "ok", scene_count |-> Len(previewItems)]
                    ELSE RunFailure(Failure("WriteFailure", "index", FALSE), sceneIdx)
    /\ UNCHANGED <<nScenes, sceneIdx, scene, seenIds, previewItems, finalWrites>>
    /\ UNCHANGED <<composeVars, colorVars, blendVars, bgVars, callVars>>

\* the scenes are enumerated only at the head of the loop
Next ==
    \/ \E load_ok \in BOOLEAN, dirs_ok \in BOOLEAN : Start(load_ok, dirs_ok)
    \/ pc = "loop" /\ \E s \in Scenes : NextScene(s)
    \/ \E ok \in BOOLEAN : Capture(ok)
    \/ \E ok \in BOOLEAN : OpenRaw(ok)
    \/ Background
    \/ \E overlay_file \in OverlayFiles, fonts \in BOOLEAN : Compose(overlay_file, fonts)
    \/ \E ok \in BOOLEAN : Save(ok)
    \/ \E ok \in BOOLEAN : WriteIndex(ok)

Spec == Init /\ [][Next]_vars

----------------------------------------------------------------------------
(* Claims about compose_scene and run *)

ComposeCalled == composeResult # NotCalled
ComposeFailedWith(kind) == composeResult.status = "error" /\ composeResult.kind = kind
Drawn(op) == \E i \in 1..Len(drawLog) : drawLog[i].op = op
DrawRank(op) ==
    CASE op = "text" -> 1
      [] op = "shadow" -> 2
      [] op = "frame" -> 3
      [] op = "tones" -> 4
      [] op = "screenshot" -> 5
      [] op = "overlay" -> 6
      [] op = "island" -> 6
ComposedPhone == composeArgs.scene.phone
ComposedStyle == resolve_phone_style(ComposedPhone)
ComposedOverlay == resolve_overlay_for_compose(ComposedPhone, composeArgs.overlay_file)
OverlayResolved == ComposedOverlay.source # "none"

\* C1: the operations compose_scene draws come in the order text, shadow,
\* frame body, tone bands, screenshot, then overlay or cutout; shadow, frame
\* body and tone bands are drawn only when no overlay is resolved, and the
\* programmatic frame or cutout is never drawn together with the overlay.  A
\* composition that succeeds has drawn the text exactly when the scene has
\* copy, the shadow, frame body and tone bands exactly when no overlay is
\* resolved, the screenshot, the overlay exactly when one is resolved, and the
\* cutout exactly when none is resolved and the style has cutout geometry.
C1_DrawOrder ==
    ComposeCalled =>
        /\ \A i, j \in 1..Len(drawLog) :
               i < j => DrawRank(drawLog[i].op) < DrawRank(drawLog[j].op)
        /\ (Drawn("shadow") \/ Drawn("frame") \/ Drawn("tones") \/ Drawn("island"))
               => (~OverlayResolved /\ ~Drawn("overlay"))
        /\ Drawn("overlay") => OverlayResolved
        /\ composeResult.status = "ok" =>
               /\ Drawn("text") <=> (composeArgs.scene.copy.kind # "none")
               /\ Drawn("shadow") <=> ~OverlayResolved
               /\ Drawn("frame") <=> ~OverlayResolved
               /\ Drawn("tones") <=> ~OverlayResolved
               /\ Drawn("screenshot")
               /\ Drawn("overlay") <=> OverlayResolved
               /\ Drawn("island") <=> (~OverlayResolved /\ ComposedStyle.has_island)

\* a composition that drew the text, the programmatic frame, the screenshot
\* and the cutout
C1_Witness ==
    /\ ComposeCalled
    /\ composeResult.status = "ok"
    /\ Len(drawLog) = 6
    /\ drawLog[1].op = "text"
    /\ drawLog[5].op = "screenshot"
    /\ drawLog[6].op = "island"

RunFailedIn(stages) == runResult.status = "error" /\ runResult.stage \in stages

\* C2: when render_background or compose_scene fails for a scene, run() has
\* ended with that failure as its result, no final image was written for the
\* scene and no preview item was recorded for it.
C2_FailureWritesNothing ==
    RunFailedIn({"background", "compose"}) =>
        /\ pc = "done"
        /\ runResult.scene_index = sceneIdx
        /\ \A i \in 1..Len(finalWrites) : finalWrites[i].scene_index # sceneIdx
        /\ Len(finalWrites) = sceneIdx - 1
        /\ Len(previewItems) = sceneIdx - 1

\* the second scene fails in compose_scene after the first was written
C2_Witness ==
    /\ RunFailedIn({"compose"})
    /\ sceneIdx = 2
    /\ Len(finalWrites) = 1
    /\ Drawn("screenshot")

\* the resolved insets, each including the border width, use up the frame
InsetsConsumeFrame ==
    LET style == ComposedStyle
        border == style.frame_border_width
    IN  \/ (style.screen_padding.left + border) + (style.screen_padding.right + border)
               >= ComposedPhone.width
        \/ (style.screen_padding.top + border) + (style.screen_padding.bottom + border)
               >= ComposedPhone.height

\* C3 as stated: whenever the resolved insets sum to at least the frame width
\* or height, compose_scene fails with NoScreenSpace and does not blend the
\* screenshot, for every model and with or without an overlay.
C3_Original ==
    (ComposeCalled /\ InsetsConsumeFrame) =>
        (ComposeFailedWith("NoScreenSpace") /\ ~Drawn("screenshot"))

\* the insets after the overlay adjustment of the Pro Max models use up the frame
EffectiveInsetsConsumeFrame ==
    LET style == ComposedStyle
        border == style.frame_border_width
        adjust == inset_adjust(ComposedPhone, ComposedOverlay)
    IN  \/ SaturatingSub(style.screen_padding.left + border, adjust[2])
             + SaturatingSub(style.screen_padding.right + border, adjust[2])
               >= ComposedPhone.width
        \/ SaturatingSub(style.screen_padding.top + border, adjust[1])
             + (style.screen_padding.bottom + border)
               >= ComposedPhone.height

\* C3 (amended): whenever the insets, reduced by the overlay adjustment of the
\* Pro Max models when an overlay is resolved, sum to at least the frame
\* width or height, compose_scene fails and does not blend the screenshot;
\* the failure is NoScreenSpace unless the text colour, the fonts, the phone
\* size or the frame colour was refused first.
C3_EffectiveInsets ==
    (ComposeCalled /\ EffectiveInsetsConsumeFrame) =>
        /\ composeResult.status = "error"
        /\ ~Drawn("screenshot")
        /\ composeResult.kind \in
               {"NoScreenSpace", "InvalidColorFormat", "FontLoadFailure", "InvalidPhoneSize"}
        /\ composeResult.kind = "InvalidPhoneSize"
               => (ComposedPhone.width = 0 \/ ComposedPhone.height = 0)
        /\ composeResult.kind = "FontLoadFailure" => ~composeArgs.fonts
        /\ composeResult.kind = "InvalidColorFormat"
               => \/ composeArgs.scene.copy.color = Color_NotHex
                  \/ ComposedStyle.frame_color = Color_NotHex

\* NoScreenSpace for a Pro Max model under an overlay
C3_Witness ==
    /\ ComposeCalled
    /\ EffectiveInsetsConsumeFrame
    /\ ComposeFailedWith("NoScreenSpace")
    /\ OverlayResolved
    /\ ComposedPhone.model = "Iphone16ProMax"

\* the overlay path of the scene, explicit or the model's default, has no file
OverlayPathMissing ==
    /\ ComposeCalled
    /\ composeArgs.overlay_file = "missing"
    /\ (ComposedPhone.overlay = "explicit" \/ ComposedPhone.model # NoModel)

\* C4 as stated: when the overlay path, explicit or the model's default, has
\* no file, compose_scene draws no overlay, does not fail because of it, and
\* goes on as without overlay, drawing the cutout if the style has one.
C4_Original ==
    OverlayPathMissing =>
        /\ ~Drawn("overlay")
        /\ ~ComposeFailedWith("OverlayDecodeFailure")
        /\ composeResult.status = "ok"
               => (Drawn("frame") /\ (Drawn("island") <=> ComposedStyle.has_island))

\* C4 (amended): when the model's default overlay has no file and no path is
\* configured, compose_scene draws no overlay, does not fail because of it
\* and, when it succeeds, has drawn the programmatic frame and the cutout of
\* the style.  When an explicitly configured path has no file, compose_scene
\* draws neither the programmatic frame nor the cutout nor an overlay and
\* fails; it fails with OverlayDecodeFailure exactly when it got as far as
\* blending the screenshot.
C4_MissingOverlay ==
    OverlayPathMissing =>
        /\ ~Drawn("overlay")
        /\ ComposedPhone.overlay = "none" =>
               /\ ~ComposeFailedWith("OverlayDecodeFailure")
               /\ composeResult.status = "ok"
                      => (Drawn("frame") /\ (Drawn("island") <=> ComposedStyle.has_island))
        /\ ComposedPhone.overlay = "explicit" =>
               /\ composeResult.status = "error"
               /\ ~Drawn("shadow") /\ ~Drawn("frame") /\ ~Drawn("tones") /\ ~Drawn("island")
               /\ Drawn("screenshot") <=> ComposeFailedWith("OverlayDecodeFailure")

\* the model's default overlay is missing and the cutout is drawn
C4_Witness ==
    /\ OverlayPathMissing
    /\ ComposedPhone.overlay = "none"
    /\ composeResult.status = "ok"
    /\ Drawn("island")
    /\ ~Drawn("overlay")

\* an explicitly configured overlay is missing and the composition fails
\* after the screenshot is blended
C4_ExplicitMissingWitness ==
    /\ OverlayPathMissing
    /\ ComposedPhone.overlay = "explicit"
    /\ ComposeFailedWith("OverlayDecodeFailure")
    /\ Drawn("screenshot")

----------------------------------------------------------------------------
(* color.rs: rgba_to_hex, and the round trip through parse_hex_rgba *)

\* mutant: {:02x} in place of {:02X}
rgba_to_hex_Lower(rgba) ==
    <<"#", HexLower[(rgba[1] \div 16) + 1], HexLower[(rgba[1] % 16) + 1],
           HexLower[(rgba[2] \div 16) + 1], HexLower[(rgba[2] % 16) + 1],
           HexLower[(rgba[3] \div 16) + 1], HexLower[(rgba[3] % 16) + 1]>>

\* format!("#{:02X}{:02X}{:02X}", rgba[0], rgba[1], rgba[2])
rgba_to_hex(rgba) ==
    <<"#", HexUpper[(rgba[1] \div 16) + 1], HexUpper[(rgba[1] % 16) + 1],
           HexUpper[(rgba[2] \div 16) + 1], HexUpper[(rgba[2] % 16) + 1],
           HexUpper[(rgba[3] \div 16) + 1], HexUpper[(rgba[3] % 16) + 1]>>

RoundTripAlphas == {0, 128, 255}
RoundTripChannels == {0, 9, 10, 171, 255}

\* every byte value occurs in every channel position
RoundTripColors ==
    { <<c, (c * 7 + 3) % 256, 255 - c, a>> : c \in 0..255, a \in RoundTripAlphas }
    \cup { <<r, g, b, a>> : r \in RoundTripChannels, g \in RoundTripChannels,
                            b \in RoundTripChannels, a \in RoundTripAlphas }

RoundTripInit ==
    /\ callArgs \in { [color |-> c] : c \in RoundTripColors }
    /\ callResult = NotCalled
    /\ ColorIdle
    /\ BlendIdle
    /\ BgIdle
    /\ RunIdle

\* a caller formats a colour and keeps the string
FormatHex ==
    /\ callResult = NotCalled
    /\ callResult' = rgba_to_hex(callArgs.color)
    /\ hexInput' = rgba_to_hex(callArgs.color)
    /\ UNCHANGED <<callArgs, hexResult, blendVars, bgVars, runVars, composeVars>>

\* the string is parsed back
ParseFormatted ==
    /\ callResult # NotCalled
    /\ ParseHex

RoundTripNext == FormatHex \/ ParseFormatted

SpecRoundTrip == RoundTripInit /\ [][RoundTripNext]_vars

IsUpperHexDigit(c) == \E i \in 1..16 : HexUpper[i] = c

\* C11: the hex string of a colour is '#' followed by 6 uppercase hex digits;
\* parsing it succeeds and returns the colour's R, G, B with alpha 255, which
\* is the colour itself when its alpha is 255.
C11_RoundTrip ==
    /\ callResult # NotCalled =>
           /\ Len(callResult) = 7
           /\ callResult[1] = "#"
           /\ \A i \in 2..7 : IsUpperHexDigit(callResult[i])
    /\ hexResult # NotCalled =>
           /\ hexInput = callResult
           /\ hexResult.status = "ok"
           /\ hexResult.color =
                  <<callArgs.color[1], callArgs.color[2], callArgs.color[3], 255>>
           /\ callArgs.color[4] = 255 => hexResult.color = callArgs.color

\* an opaque colour with letters and digits in its hex form came back
C11_Witness ==
    /\ hexResult # NotCalled
    /\ callArgs.color = <<171, 9, 255, 255>>
    /\ hexInput = <<"#", "A", "B", "0", "9", "F", "F">>
    /\ hexResult.color = <<171, 9, 255, 255>>

----------------------------------------------------------------------------
(* compose.rs: inside_rounded_rect and fill_rounded_rect *)

\* mutant: without the early return for radius <= 0
inside_rounded_rect_NoEarlyReturn(px, py, w, h, radius) ==
    LET r == Min(Min(radius, w \div 2), h \div 2)
        cx == IF px < r THEN r - 1 ELSE w - r
        cy == IF py < r THEN r - 1 ELSE h - r
        dx == px - cx
        dy == py - cy
    IN  IF px >= r /\ px < w - r THEN TRUE
        ELSE IF py >= r /\ py < h - r THEN TRUE
        ELSE dx * dx + dy * dy <= r * r

\* mutant: the left and top corner circles are centred at r instead of r - 1
inside_rounded_rect_CentreAtR(px, py, w, h, radius) ==
    IF radius <= 0 THEN TRUE
    ELSE LET r == Min(Min(radius, w \div 2), h \div 2)
             cx == IF px < r THEN r ELSE w - r
             cy == IF py < r THEN r ELSE h - r
             dx == px - cx
             dy == py - cy
         IN  IF px >= r /\ px < w - r THEN TRUE
             ELSE IF py >= r /\ py < h - r THEN TRUE
             ELSE dx * dx + dy * dy <= r * r

\* inside_rounded_rect; w / 2 and h / 2 divide non-negative values here
inside_rounded_rect(px, py, w, h, radius) ==
    IF radius <= 0 THEN TRUE
    ELSE LET r == Min(Min(radius, w \div 2), h \div 2)
             cx == IF px < r THEN r - 1 ELSE w - r
             cy == IF py < r THEN r - 1 ELSE h - r
             dx == px - cx
             dy == py - cy
         IN  IF px >= r /\ px < w - r THEN TRUE
             ELSE IF py >= r /\ py < h - r THEN TRUE
             ELSE dx * dx + dy * dy <= r * r

\* n successive blend_pixel calls with the same colour on one canvas pixel
RECURSIVE BlendTimes(_, _, _)
BlendTimes(color, dst, n) ==
    IF n = 0 THEN dst ELSE BlendTimes(color, BlendOut(color, dst), n - 1)

\* fill_rounded_rect; width, height and radius are below 2^31, where the
\* casts to i32 keep the value.  steps lists the points the two loops visit,
\* row by row, and calls those of them handed to blend_pixel.  A blend_pixel
\* call changes its own target only, so a canvas pixel ends up blended once
\* for every call that targets it.
fill_rounded_rect(img, x, y, width, height, radius, color) ==
    LET steps == [k \in 1..(width * height) |->
                     <<x + ((k - 1) % width), y + ((k - 1) \div width)>>]
        Passes(p) == inside_rounded_rect(p[1] - x, p[2] - y, width, height, radius)
        calls == SelectSeq(steps, Passes)
        Hits(i) ==
            LET target == <<(i - 1) % img.width, (i - 1) \div img.width>>
            IN  Cardinality({j \in 1..Len(calls) : calls[j] = target})
    IN  [image |-> [img EXCEPT !.pixels =
                       [i \in 1..Len(img.pixels) |->
                           BlendTimes(color, img.pixels[i], Hits(i))]],
         calls |-> calls]

FillCanvasW == 10
FillCanvasH == 10

\* a canvas on which every pixel has its own colour
FillCanvas ==
    [width |-> FillCanvasW, height |-> FillCanvasH,
     pixels |-> [i \in 1..(FillCanvasW * FillCanvasH) |->
                    <<(i * 37) % 256, (i * 11) % 256, 255 - i, 255>>]]

FillOrigins == {-1, 0, 3}
FillSizes == {0, 1, 2, 8, 10}
FillRadii == {0, 1, 4, 5, 20}
FillColors == { <<9, 130, 201, 128>>, <<255, 255, 255, 255>> }

FillInit ==
    /\ callArgs = NotCalled
    /\ callResult = NotCalled
    /\ image = FillCanvas
    /\ imageBefore = FillCanvas
    /\ blendCall = NotCalled
    /\ ColorIdle
    /\ BgIdle
    /\ RunIdle

\* a drawing step of compose_scene fills a rounded rectangle
FillRoundedRect(x, y, width, height, radius, color) ==
    /\ callArgs = NotCalled
    /\ LET r == fill_rounded_rect(image, x, y, width, height, radius, color)
       IN  /\ image' = r.image
           /\ callResult' = [calls |-> r.calls]
    /\ imageBefore' = image
    /\ callArgs' = [fn |-> "fill_rounded_rect", x |-> x, y |-> y, width |-> width,
                    height |-> height, radius |-> radius, color |-> color]
    /\ UNCHANGED <<blendCall, colorVars, bgVars, runVars, composeVars>>

\* the membership test on its own, for points in and around the rectangle
InsideRoundedRect(px, py, w, h, radius) ==
    /\ callArgs = NotCalled
    /\ callArgs' = [fn |-> "inside_rounded_rect", px |-> px, py |-> py, w |-> w,
                    h |-> h, radius |-> radius]
    /\ callResult' = [inside |-> inside_rounded_rect(px, py, w, h, radius)]
    /\ UNCHANGED <<blendVars, colorVars, bgVars, runVars, composeVars>>

\* widths and heights handed to inside_rounded_rect: even, odd, 1 and 0
InsideSizes == {0, 1, 8, 9, 10}

\* the arguments are enumerated only while no call was made
FillNext ==
    \/ /\ callArgs = NotCalled
       /\ \E x \in FillOrigins, y \in FillOrigins, width \in FillSizes, height \in FillSizes,
             radius \in FillRadii, color \in FillColors :
                 FillRoundedRect(x, y, width, height, radius, color)
    \/ /\ callArgs = NotCalled
       /\ \E px \in -2..11, py \in -2..11, w \in InsideSizes, h \in InsideSizes,
             radius \in {-5, -1} \cup FillRadii :
                 InsideRoundedRect(px, py, w, h, radius)

SpecFill == FillInit /\ [][FillNext]_vars

FillCalled == callArgs # NotCalled /\ callArgs.fn = "fill_rounded_rect"
InsideCalled == callArgs # NotCalled /\ callArgs.fn = "inside_rounded_rect"

\* the points of the bounding box, as canvas coordinates
FillBox ==
    { <<callArgs.x + xx, callArgs.y + yy>> :
        xx \in 0..(callArgs.width - 1), yy \in 0..(callArgs.height - 1) }

\* the points of the bounding box that pass inside_rounded_rect
FillInside ==
    { p \in FillBox : inside_rounded_rect(p[1] - callArgs.x, p[2] - callArgs.y,
                                          callArgs.width, callArgs.height,
                                          callArgs.radius) }

\* C12: fill_rounded_rect hands blend_pixel exactly the points of the bounding
\* box that pass inside_rounded_rect, each once; afterwards every canvas pixel
\* among them is the blend of the colour over what it was and every other
\* canvas pixel is what it was.  With radius <= 0 inside_rounded_rect is true
\* for every point, and every point of the bounding box is blended.
C12_FillBlendsInside ==
    /\ FillCalled =>
           /\ { callResult.calls[i] : i \in 1..Len(callResult.calls) } = FillInside
           /\ Len(callResult.calls) = Cardinality(FillInside)
           /\ image.width = imageBefore.width /\ image.height = imageBefore.height
           /\ \A cx \in 0..(image.width - 1), cy \in 0..(image.height - 1) :
                  get_pixel(image, cx, cy) =
                      IF <<cx, cy>> \in FillInside
                      THEN BlendOut(callArgs.color, get_pixel(imageBefore, cx, cy))
                      ELSE get_pixel(imageBefore, cx, cy)
           /\ callArgs.radius <= 0 =>
                  /\ FillInside = FillBox
                  /\ Len(callResult.calls) = callArgs.width * callArgs.height
    /\ (InsideCalled /\ callArgs.radius <= 0) => callResult.inside

\* radius 0 on a 10x10 region of the canvas: all 100 pixels are blended
C12_Witness ==
    /\ FillCalled
    /\ callArgs.radius = 0 /\ callArgs.width = 10 /\ callArgs.height = 10
    /\ callArgs.x = 0 /\ callArgs.y = 0
    /\ Len(callResult.calls) = 100
    /\ \A cx \in 0..9, cy \in 0..9 :
           get_pixel(image, cx, cy) # get_pixel(imageBefore, cx, cy)

\* a rounded corner is left out while the rest of the box is blended
C12_CornerWitness ==
    /\ FillCalled
    /\ callArgs.radius = 4 /\ callArgs.width = 8 /\ callArgs.height = 8
    /\ callArgs.x = 0 /\ callArgs.y = 0
    /\ get_pixel(image, 0, 0) = get_pixel(imageBefore, 0, 0)
    /\ get_pixel(image, 4, 0) # get_pixel(imageBefore, 4, 0)

----------------------------------------------------------------------------
(* compose.rs: resize_cover *)

\* n / d rounded to the nearest integer, ties to even
RoundHalfEven(n, d) ==
    LET q == n \div d
        r == n % d
    IN  IF 2 * r < d THEN q
        ELSE IF 2 * r > d THEN q + 1
        ELSE IF q % 2 = 0 THEN q ELSE q + 1

\* A positive f32 is kept as [m, s]: the value m / 2^s with a 24-bit
\* significand 2^23 <= m < 2^24.
F32(m, s) == IF m = 2^24 THEN [m |-> 2^23, s |-> s - 1] ELSE [m |-> m, s |-> s]

\* a as f32 / b as f32 for small positive integers, rounded to nearest even
F32Div(a, b) ==
    LET s == CHOOSE k \in 0..40 :
                 IF k >= 23
                 THEN /\ a * 2^(k - 23) >= b
                      /\ a * 2^(k - 23) < 2 * b
                 ELSE /\ a >= b * 2^(23 - k)
                      /\ a < b * 2^(24 - k)
    IN  IF s >= 23 /\ a * 2^(s - 23) = b THEN [m |-> 2^23, s |-> s]
        ELSE F32(RoundHalfEven(a * 2^s, b), s)

\* f32::max of two positive values
F32Max(x, y) ==
    IF x.s < y.s THEN x
    ELSE IF y.s < x.s THEN y
    ELSE IF x.m >= y.m THEN x ELSE y

\* n as f32 * x for a small positive integer n, rounded to nearest even
F32MulInt(n, x) ==
    LET p == n * x.m
        k == CHOOSE j \in 0..8 : p >= 2^(23 + j) /\ p < 2^(24 + j)
    IN  F32(RoundHalfEven(p, 2^k), x.s - k)

\* x.ceil() as u32
F32Ceil(x) == IF x.s <= 0 THEN x.m * 2^(0 - x.s) ELSE (x.m + 2^(x.s) - 1) \div 2^(x.s)

\* mutant: the offset is taken from the resized size alone
CropOffset_FromResized(resized, target) == resized \div 2

\* (resized - target) / 2
CropOffset(resized, target) == (resized - target) \div 2

\* image::imageops::crop_imm clamps the rectangle to the image
crop_imm(iwidth, iheight, x, y, width, height) ==
    LET cx == Min(x, iwidth)
        cy == Min(y, iheight)
    IN  [x |-> cx, y |-> cy,
         width |-> Min(width, iwidth - cx), height |-> Min(height, iheight - cy)]

\* resize_cover: the sizes of the resized bitmap, the crop offsets and the
\* size of the bitmap returned
resize_cover(src_w, src_h, target_w, target_h) ==
    LET scale == F32Max(F32Div(target_w, src_w), F32Div(target_h, src_h))
        resized_w == Max(F32Ceil(F32MulInt(src_w, scale)), target_w)
        resized_h == Max(F32Ceil(F32MulInt(src_h, scale)), target_h)
        crop_x == CropOffset(resized_w, target_w)
        crop_y == CropOffset(resized_h, target_h)
        cropped == crop_imm(resized_w, resized_h, crop_x, crop_y, target_w, target_h)
    IN  [resized_w |-> resized_w, resized_h |-> resized_h,
         crop_x |-> crop_x, crop_y |-> crop_y,
         width |-> cropped.width, height |-> cropped.height]

MaxDim == 13

ResizeInit ==
    /\ callArgs \in [src_w : 1..MaxDim, src_h : 1..MaxDim,
                     target_w : 1..MaxDim, target_h : 1..MaxDim]
    /\ callResult = NotCalled
    /\ ColorIdle
    /\ BlendIdle
    /\ BgIdle
    /\ RunIdle

\* compose_scene fits the screenshot into the screen rectangle
ResizeCover ==
    /\ callResult = NotCalled
    /\ callResult' = resize_cover(callArgs.src_w, callArgs.src_h,
                                  callArgs.target_w, callArgs.target_h)
    /\ UNCHANGED <<callArgs, colorVars, blendVars, bgVars, runVars, composeVars>>

ResizeNext == ResizeCover

SpecResize == ResizeInit /\ [][ResizeNext]_vars

\* C13: resize_cover returns a bitmap of exactly target_w x target_h; the
\* resized bitmap is at least as wide and as high as the target and the crop
\* rectangle lies inside it.
C13_ResizeCoverExact ==
    callResult # NotCalled =>
        /\ callResult.width = callArgs.target_w
        /\ callResult.height = callArgs.target_h
        /\ callResult.resized_w >= callArgs.target_w
        /\ callResult.resized_h >= callArgs.target_h
        /\ callResult.crop_x >= 0
        /\ callResult.crop_y >= 0
        /\ callResult.crop_x + callArgs.target_w <= callResult.resized_w
        /\ callResult.crop_y + callArgs.target_h <= callResult.resized_h

\* a 2x13 source for a 1x7 target: 13 * (7 / 13) is just above 7 in f32, the
\* resized bitmap is 2x8 and the crop still is 1x7
C13_Witness ==
    /\ callResult # NotCalled
    /\ callArgs = [src_w |-> 2, src_h |-> 13, target_w |-> 1, target_h |-> 7]
    /\ callResult.resized_w = 2
    /\ callResult.resized_h = 8
    /\ callResult.width = 1
    /\ callResult.height = 7

----------------------------------------------------------------------------
(* compose.rs: measure_text_width and wrap_text_by_width *)

MaxTextLen == 5
MaxLineWidth == 8

Newline == "\n"
TextChars == {"a", "b", " ", Newline}

\* the characters of the texts for which char::is_whitespace holds
Whitespace == {" ", Newline}

\* measure_text_width: the advances of the glyphs plus the kerning of every
\* pair of neighbours.  The widths are small integers, which f32 adds exactly.
RECURSIVE measure_text_width(_, _)
measure_text_width(text, font) ==
    IF text = <<>> THEN 0
    ELSE LET n == Len(text)
             front == SubSeq(text, 1, n - 1)
         IN  measure_text_width(front, font)
                 + (IF n > 1 THEN font.kern[<<text[n - 1], text[n]>>] ELSE 0)
                 + font.advance[text[n]]

\* str::split on a set of separators: the pieces between separators, empty
\* ones included; piece is the piece being read
RECURSIVE SplitOn(_, _, _, _)
SplitOn(text, i, piece, seps) ==
    IF i > Len(text) THEN <<piece>>
    ELSE IF text[i] \in seps THEN <<piece>> \o SplitOn(text, i + 1, <<>>, seps)
    ELSE SplitOn(text, i + 1, Append(piece, text[i]), seps)

\* str::lines: the pieces between newlines, without a final empty piece
Lines(text) ==
    LET pieces == SplitOn(text, 1, <<>>, {Newline})
    IN  IF pieces[Len(pieces)] = <<>> THEN SubSeq(pieces, 1, Len(pieces) - 1)
        ELSE pieces

\* str::split_whitespace: the non-empty pieces between whitespace
split_whitespace(text) ==
    LET NonEmpty(p) == p # <<>>
    IN  SelectSeq(SplitOn(text, 1, <<>>, Whitespace), NonEmpty)

\* mutant: every word is taken onto the current line
WordFits_Always(current_width, space_width, word_width, max_width) == TRUE

\* current_width + space_width + word_width <= max_width
WordFits(current_width, space_width, word_width, max_width) ==
    current_width + space_width + word_width <= max_width

\* the loop over the words of a hard line that is too wide
RECURSIVE WrapWords(_, _, _, _, _, _)
WrapWords(words, current, current_width, out, font, max_width) ==
    IF words = <<>>
    THEN IF current # <<>> THEN Append(out, current) ELSE out
    ELSE LET word == Head(words)
             word_width == measure_text_width(word, font)
             space_width == IF current = <<>> THEN 0
                            ELSE measure_text_width(<<" ">>, font)
         IN  IF WordFits(current_width, space_width, word_width, max_width)
             THEN WrapWords(Tail(words),
                            (IF current # <<>> THEN Append(current, " ") ELSE current)
                                \o word,
                            (IF current # <<>> THEN current_width + space_width
                             ELSE current_width) + word_width,
                            out, font, max_width)
             ELSE WrapWords(Tail(words), word, word_width,
                            IF current # <<>> THEN Append(out, current) ELSE out,
                            font, max_width)

\* the loop over the hard lines
RECURSIVE WrapLines(_, _, _, _)
WrapLines(hard_lines, out, font, max_width) ==
    IF hard_lines = <<>> THEN out
    ELSE LET hard_line == Head(hard_lines)
         IN  IF measure_text_width(hard_line, font) <= max_width
             THEN WrapLines(Tail(hard_lines), Append(out, hard_line), font, max_width)
             ELSE WrapLines(Tail(hard_lines),
                            WrapWords(split_whitespace(hard_line), <<>>, 0, out,
                                      font, max_width),
                            font, max_width)

wrap_text_by_width(text, font, max_width) ==
    LET out == WrapLines(Lines(text), <<>>, font, max_width)
    IN  IF out = <<>> THEN << <<>> >> ELSE out

\* Font metrics: an advance for every glyph and a kerning for every pair.
\* In each font an advance is larger than any kerning, so a glyph never makes
\* a text narrower.
Pairs == TextChars \X TextChars
NoKerning == [p \in Pairs |-> 0]
FontAdvances == [c \in TextChars |-> IF c = "a" THEN 2 ELSE IF c = "b" THEN 3 ELSE 2]

Fonts ==
    { [advance |-> FontAdvances, kern |-> NoKerning],
      [advance |-> FontAdvances,
       kern |-> [NoKerning EXCEPT ![<<"a", "b">>] = -1, ![<<"b", " ">>] = -1]],
      [advance |-> FontAdvances,
       kern |-> [NoKerning EXCEPT ![<<"a", " ">>] = 1, ![<<"b", "a">>] = -1]],
      [advance |-> [FontAdvances EXCEPT ![" "] = 1],
       kern |-> [NoKerning EXCEPT ![<<" ", "b">>] = 1]] }

Texts == StringsOver(TextChars, MaxTextLen)

WrapInit ==
    /\ callArgs \in [text : Texts, font : Fonts, max_width : 0..MaxLineWidth]
    /\ callResult = NotCalled
    /\ ColorIdle
    /\ BlendIdle
    /\ BgIdle
    /\ RunIdle

\* draw_text_wrapped wraps the text it is given
WrapText ==
    /\ callResult = NotCalled
    /\ callResult' = [lines |-> wrap_text_by_width(callArgs.text, callArgs.font,
                                                   callArgs.max_width)]
    /\ UNCHANGED <<callArgs, colorVars, blendVars, bgVars, runVars, composeVars>>

WrapNext == WrapText

SpecWrap == WrapInit /\ [][WrapNext]_vars

WrapCalled == callResult # NotCalled /\ "lines" \in DOMAIN callResult

WrappedLineWidth(i) == measure_text_width(callResult.lines[i], callArgs.font)

IsSingleWord(line) == line # <<>> /\ \A k \in 1..Len(line) : line[k] \notin Whitespace

\* C14: every line that wrap_text_by_width returns measures at most the
\* maximum width, unless the line is one single word that is itself wider
\* than the maximum.  The measure is that of measure_text_width: the advances
\* plus the kerning of all neighbouring glyphs, spaces included.
C14_LinesFit ==
    WrapCalled =>
        \A i \in 1..Len(callResult.lines) :
            \/ WrappedLineWidth(i) <= callArgs.max_width
            \/ IsSingleWord(callResult.lines[i])

\* the words of a sequence of lines, in order
RECURSIVE WordsOf(_)
WordsOf(lines) ==
    IF lines = <<>> THEN <<>>
    ELSE split_whitespace(Head(lines)) \o WordsOf(Tail(lines))

\* C15: the words of the returned lines, read in order, are the words of the
\* input in order (none split, dropped, duplicated or moved); a word wider
\* than the maximum is the only word of its line; at least one line is
\* returned, and the empty text gives one empty line.
C15_WordsPreserved ==
    WrapCalled =>
        /\ WordsOf(callResult.lines) = split_whitespace(callArgs.text)
        /\ \A i \in 1..Len(callResult.lines) :
               LET words == split_whitespace(callResult.lines[i])
               IN  \A k \in 1..Len(words) :
                       measure_text_width(words[k], callArgs.font) > callArgs.max_width
                           => callResult.lines[i] = words[k]
        /\ Len(callResult.lines) >= 1
        /\ (callArgs.text = <<>> => callResult.lines = << <<>> >>)

\* a wide word between two narrow ones, each on a line of its own
C15_Witness ==
    /\ WrapCalled
    /\ callArgs.text = <<"a", " ", "b", " ", "a">>
    /\ callArgs.max_width = 2
    /\ callResult.lines = << <<"a">>, <<"b">>, <<"a">> >>

\* two words joined on one line and a third wrapped onto the next
C15_JoinWitness ==
    /\ WrapCalled
    /\ callArgs.text = <<"a", " ", "a", " ", "b">>
    /\ callArgs.font.kern = NoKerning
    /\ callArgs.max_width = 6
    /\ callResult.lines = << <<"a", " ", "a">>, <<"b">> >>

----------------------------------------------------------------------------
(* palette.rs: extract_dominant_colors *)

MaxBitmapW == 17
MaxBitmapH == 9
MaxCount == 3

\* step_by(step)
SampleStep == 8

\* 0.15 as an f32: 10066330 / 2^26
EdgeFraction == [m |-> 10066330, s |-> 26]

\* x as u32 for a positive f32 x
F32Trunc(x) == IF x.s <= 0 THEN x.m * 2^(0 - x.s) ELSE x.m \div 2^(x.s)

\* (size as f32 * 0.15) as u32
edge_margin(size) == IF size = 0 THEN 0 ELSE F32Trunc(F32MulInt(size, EdgeFraction))

\* (0..size).step_by(step)
SteppedRange(size) == {v \in 0..(size - 1) : v % SampleStep = 0}

\* The coordinates the two loops visit.  extract_dominant_colors reads no
\* other pixel, so a bitmap is kept as its size and its pixels at these
\* coordinates.
GridPoints(width, height) == SteppedRange(width) \X SteppedRange(height)

is_edge(x, y, width, height) ==
    \/ x < edge_margin(width)
    \/ x > width - edge_margin(width)
    \/ y < edge_margin(height)
    \/ y > height - edge_margin(height)

\* mutant: a pixel is kept whatever its alpha
IsVisible_Any(pixel) == TRUE

\* pixel[3] > 128
IsVisible(pixel) == pixel[4] > 128

\* the pixels pushed to samples, in the order of the loops (rows, then columns)
Samples(img) ==
    LET nx == Cardinality(SteppedRange(img.width))
        ny == Cardinality(SteppedRange(img.height))
        steps == [k \in 1..(nx * ny) |->
                     <<((k - 1) % nx) * SampleStep, ((k - 1) \div nx) * SampleStep>>]
        Taken(p) == /\ \/ is_edge(p[1], p[2], img.width, img.height)
                       \/ (p[1] % 16 = 0 /\ p[2] % 16 = 0)
                    /\ IsVisible(img.pixels[p])
        taken == SelectSeq(steps, Taken)
    IN  [i \in 1..Len(taken) |-> img.pixels[taken[i]]]

\* the histogram key of a pixel: 32 levels per channel
BinKey(pixel) == <<pixel[1] \div 8, pixel[2] \div 8, pixel[3] \div 8>>

\* the histogram: the number of samples of every key that occurs
Histogram(samples) ==
    LET keys == {BinKey(samples[i]) : i \in 1..Len(samples)}
    IN  [key \in keys |-> Cardinality({i \in 1..Len(samples) : BinKey(samples[i]) = key})]

\* The outcomes of collecting the HashMap into a vector and sorting it by
\* descending count: the sort is stable and the iteration order of the map
\* is arbitrary, so keys of equal count come in any order.
SortedOrders(histogram) ==
    LET keys == DOMAIN histogram
        n == Cardinality(keys)
    IN  {sorted \in [1..n -> keys] :
            /\ \A i, j \in 1..n : i # j => sorted[i] # sorted[j]
            /\ \A i, j \in 1..n : i < j => histogram[sorted[i]] >= histogram[sorted[j]]}

\* mutant: the bin's lower corner instead of its centre
BinColor_Corner(key) == <<key[1] * 8, key[2] * 8, key[3] * 8, 255>>

\* Rgba([r * 8 + 4, g * 8 + 4, b * 8 + 4, 255])
BinColor(key) == <<key[1] * 8 + 4, key[2] * 8 + 4, key[3] * 8 + 4, 255>>

\* mutant: a lower similarity threshold
Similar_Threshold40(color, existing) ==
    Abs(color[1] - existing[1]) + Abs(color[2] - existing[2])
        + Abs(color[3] - existing[3]) < 40

\* dr + dg + db < 60
Similar(color, existing) ==
    Abs(color[1] - existing[1]) + Abs(color[2] - existing[2])
        + Abs(color[3] - existing[3]) < 60

\* mutant: the loop never stops early
ReachedCount_Never(dominant, count) == FALSE

\* dominant.len() >= count
ReachedCount(dominant, count) == Len(dominant) >= count

\* the loop over the sorted keys
RECURSIVE PickDominant(_, _, _)
PickDominant(sorted, dominant, count) ==
    IF sorted = <<>> THEN dominant
    ELSE LET color == BinColor(Head(sorted))
             dominated == \E e \in 1..Len(dominant) : Similar(color, dominant[e])
             pushed == Append(dominant, color)
         IN  IF dominated THEN PickDominant(Tail(sorted), dominant, count)
             ELSE IF ReachedCount(pushed, count) THEN pushed
             ELSE PickDominant(Tail(sorted), pushed, count)

FallbackColor == <<30, 30, 40, 255>>

\* sorted is the order in which the sort leaves the keys of the histogram
extract_dominant_colors(img, count, sorted) ==
    IF Samples(img) = <<>> THEN <<FallbackColor>>
    ELSE LET dominant == PickDominant(sorted, <<>>, count)
         IN  IF dominant = <<>> THEN <<FallbackColor>> ELSE dominant

\* Pixels: one of the lowest bin, two of bins 56 and 64 away from it, one of
\* a far bin, and one whose alpha is at the threshold.
BitmapPixels ==
    { <<7, 5, 3, 255>>, <<36, 28, 4, 255>>, <<39, 39, 0, 129>>,
      <<255, 255, 255, 255>>, <<200, 100, 50, 128>> }

Bitmaps ==
    UNION { [width : {w}, height : {h}, pixels : [GridPoints(w, h) -> BitmapPixels]] :
                w \in 0..MaxBitmapW, h \in 0..MaxBitmapH }

PaletteInit ==
    /\ callArgs \in [image : Bitmaps, count : 0..MaxCount]
    /\ callResult = NotCalled
    /\ ColorIdle
    /\ BlendIdle
    /\ BgIdle
    /\ RunIdle

ExtractDominantColors ==
    /\ callResult = NotCalled
    /\ \E sorted \in SortedOrders(Histogram(Samples(callArgs.image))) :
           callResult' = [colors |-> extract_dominant_colors(callArgs.image,
                                                             callArgs.count, sorted)]
    /\ UNCHANGED <<callArgs, colorVars, blendVars, bgVars, runVars, composeVars>>

PaletteNext == ExtractDominantColors

SpecPalette == PaletteInit /\ [][PaletteNext]_vars

ExtractCalled == callResult # NotCalled /\ "colors" \in DOMAIN callResult

Manhattan(c, d) == Abs(c[1] - d[1]) + Abs(c[2] - d[2]) + Abs(c[3] - d[3])

\* C16: any two colours at different places of the sequence returned by
\* extract_dominant_colors are more than 60 apart in |dR| + |dG| + |dB|.
C16_DominantFarApart ==
    ExtractCalled =>
        \A i, j \in 1..Len(callResult.colors) :
            i # j => Manhattan(callResult.colors[i], callResult.colors[j]) > 60

\* the bins 64 apart are both returned although a bin 56 from one and 8 from
\* the other was sampled too
C16_Witness ==
    /\ ExtractCalled
    /\ \E p \in DOMAIN callArgs.image.pixels :
           callArgs.image.pixels[p] = <<36, 28, 4, 255>>
    /\ callResult.colors = << <<4, 4, 4, 255>>, <<36, 36, 4, 255>> >>

\* C17 as stated: the result has at most count colours, count = 0 included.
C17_Original == ExtractCalled => Len(callResult.colors) <= callArgs.count

\* C17: the result has at most count colours, and one colour when count is 0.
C17_AtMostCount == ExtractCalled => Len(callResult.colors) <= Max(callArgs.count, 1)

\* the keys of the histogram
SampledKeys ==
    LET samples == Samples(callArgs.image)
    IN  {BinKey(samples[i]) : i \in 1..Len(samples)}

\* three bins far from each other were sampled and count = 2 stops the loop
\* after two of them
C17_Witness ==
    /\ ExtractCalled
    /\ callArgs.count = 2
    /\ SampledKeys = {<<0, 0, 0>>, <<4, 4, 0>>, <<31, 31, 31>>}
    /\ Len(callResult.colors) = 2

\* the coordinates whose pixel the loops look at
SampledPoints ==
    {p \in DOMAIN callArgs.image.pixels :
        \/ is_edge(p[1], p[2], callArgs.image.width, callArgs.image.height)
        \/ (p[1] % 16 = 0 /\ p[2] % 16 = 0)}

\* C18: extract_dominant_colors returns at least one colour for every bitmap
\* and count, and exactly the fallback colour (30, 30, 40, 255) when no
\* sampled pixel has an alpha above 128.
C18_NeverEmpty ==
    ExtractCalled =>
        /\ Len(callResult.colors) >= 1
        /\ (\A p \in SampledPoints : callArgs.image.pixels[p][4] <= 128)
               => callResult.colors = << <<30, 30, 40, 255>> >>

\* a bitmap with a visible pixel that the loops skip and no visible pixel
\* among those they look at
C18_Witness ==
    /\ ExtractCalled
    /\ SampledPoints # {}
    /\ \E p \in DOMAIN callArgs.image.pixels :
           p \notin SampledPoints /\ callArgs.image.pixels[p][4] > 128
    /\ \A p \in SampledPoints : callArgs.image.pixels[p][4] <= 128
    /\ callResult.colors = << <<30, 30, 40, 255>> >>

\* C19: for a bitmap whose pixels all have one opaque colour c and a count of
\* at least 1, the result is the single colour of the centre of c's bin,
\* (c / 8) * 8 + 4 in every channel.
C19_UniformBitmap ==
    ExtractCalled =>
        \A c \in BitmapPixels :
            (/\ callArgs.image.width > 0
             /\ callArgs.image.height > 0
             /\ callArgs.count >= 1
             /\ c[4] = 255
             /\ \A p \in DOMAIN callArgs.image.pixels : callArgs.image.pixels[p] = c)
                => callResult.colors =
                       << <<(c[1] \div 8) * 8 + 4, (c[2] \div 8) * 8 + 4,
                            (c[3] \div 8) * 8 + 4, 255>> >>

\* the largest bitmap, all of the colour (7, 5, 3), gives (4, 4, 4)
C19_Witness ==
    /\ ExtractCalled
    /\ callArgs.image.width = MaxBitmapW
    /\ callArgs.image.height = MaxBitmapH
    /\ callArgs.count = 2
    /\ \A p \in DOMAIN callArgs.image.pixels : callArgs.image.pixels[p] = <<7, 5, 3, 255>>
    /\ callResult.colors = << <<4, 4, 4, 255>> >>

----------------------------------------------------------------------------
(* color.rs: Hsl, rgb_to_hsl, hsl_to_rgb; palette.rs: generate_palette *)

MaxDominant == 2

\* The f32 values of the HSL code are kept in fixed point: an integer n stands
\* for n / Unit, and every product and quotient is rounded to the nearest
\* unit.  Hues are degrees, saturation and lightness fractions of 1.
Unit == 10000

\* n / d for d > 0, rounded to the nearest integer, ties to even
RoundSigned(n, d) == IF n >= 0 THEN RoundHalfEven(n, d) ELSE 0 - RoundHalfEven(0 - n, d)

FixMul(a, b) == RoundSigned(a * b, Unit)
FixDiv(a, b) == RoundSigned(a * Unit, b)

\* f32 % : the remainder has the sign of the dividend
FixRem(a, b) == IF a >= 0 THEN a % b ELSE 0 - ((0 - a) % b)

\* f32::clamp(0.0, 1.0)
Clamp01(a) == IF a < 0 THEN 0 ELSE IF a > Unit THEN Unit ELSE a

\* (v * 255.0).round() as u8: ties away from zero, and the cast saturates
RoundToU8(v) ==
    LET n == v * 255
        rounded == IF n >= 0 THEN (2 * n + Unit) \div (2 * Unit)
                   ELSE 0 - ((2 * (0 - n) + Unit) \div (2 * Unit))
    IN  IF rounded < 0 THEN 0 ELSE IF rounded > 255 THEN 255 ELSE rounded

Hsl_new(h, s, l) == [h |-> FixRem(h, 360 * Unit), s |-> Clamp01(s), l |-> Clamp01(l)]

\* degrees is a whole number of degrees
shift_hue(hsl, degrees) ==
    Hsl_new(FixRem(hsl.h + degrees * Unit + 360 * Unit, 360 * Unit), hsl.s, hsl.l)

adjust_saturation(hsl, factor) == Hsl_new(hsl.h, Clamp01(FixMul(hsl.s, factor)), hsl.l)

with_lightness(hsl, l) == Hsl_new(hsl.h, hsl.s, l)

with_saturation(hsl, s) == Hsl_new(hsl.h, s, hsl.l)

rgb_to_hsl(rgba) ==
    LET r == FixDiv(rgba[1], 255)
        g == FixDiv(rgba[2], 255)
        b == FixDiv(rgba[3], 255)
        max == Max(Max(r, g), b)
        min == Min(Min(r, g), b)
        l == RoundSigned(max + min, 2)
        d == max - min
        s == IF l > Unit \div 2 THEN FixDiv(d, 2 * Unit - max - min)
             ELSE FixDiv(d, max + min)
        h == IF max = r
             THEN (FixDiv(g - b, d) + (IF g < b THEN 6 * Unit ELSE 0)) * 60
             ELSE IF max = g THEN (FixDiv(b - r, d) + 2 * Unit) * 60
             ELSE (FixDiv(r - g, d) + 4 * Unit) * 60
    IN  IF max = min THEN Hsl_new(0, 0, l) ELSE Hsl_new(h, s, l)

\* the closure hue_to_rgb of hsl_to_rgb, with the p and q it captures
hue_to_rgb(p, q, t0) ==
    LET t == IF t0 < 0 THEN t0 + Unit ELSE IF t0 > Unit THEN t0 - Unit ELSE t0
    IN  IF t < RoundSigned(Unit, 6) THEN p + FixMul((q - p) * 6, t)
        ELSE IF t < Unit \div 2 THEN q
        ELSE IF t < RoundSigned(2 * Unit, 3)
             THEN p + FixMul(q - p, RoundSigned(2 * Unit, 3) - t) * 6
        ELSE p

hsl_to_rgb(hsl) ==
    LET q == IF hsl.l < Unit \div 2 THEN FixMul(hsl.l, Unit + hsl.s)
             ELSE hsl.l + hsl.s - FixMul(hsl.l, hsl.s)
        p == 2 * hsl.l - q
        h_norm == RoundSigned(hsl.h, 360)
        third == RoundSigned(Unit, 3)
    IN  IF hsl.s = 0
        THEN <<RoundToU8(hsl.l), RoundToU8(hsl.l), RoundToU8(hsl.l), 255>>
        ELSE <<RoundToU8(hue_to_rgb(p, q, h_norm + third)),
               RoundToU8(hue_to_rgb(p, q, h_norm)),
               RoundToU8(hue_to_rgb(p, q, h_norm - third)), 255>>

\* the saturation factors of generate_monochromatic, in units of 1 / Unit
MonochromaticFactors == <<7000, 8500, 10000, 6000>>

\* the four HSL values that generate_monochromatic converts
MonochromaticSteps(base) ==
    << with_saturation(with_lightness(base, 800), FixMul(base.s, MonochromaticFactors[1])),
       with_saturation(with_lightness(base, 1800), FixMul(base.s, MonochromaticFactors[2])),
       with_saturation(with_lightness(base, 3500), FixMul(base.s, MonochromaticFactors[3])),
       with_saturation(with_lightness(base, 5500), FixMul(base.s, MonochromaticFactors[4])) >>

generate_monochromatic(base) ==
    LET steps == MonochromaticSteps(base)
    IN  <<hsl_to_rgb(steps[1]), hsl_to_rgb(steps[2]), hsl_to_rgb(steps[3]), hsl_to_rgb(steps[4])>>

generate_analogous(base) ==
    << hsl_to_rgb(with_lightness(shift_hue(base, -25), 1200)),
       hsl_to_rgb(with_lightness(base, 2200)),
       hsl_to_rgb(with_lightness(shift_hue(base, 25), 3800)),
       hsl_to_rgb(with_lightness(shift_hue(base, 15), 5800)) >>

generate_complementary(base, dominant) ==
    LET complement == shift_hue(base, 180)
        accent == IF Len(dominant) > 1 THEN rgb_to_hsl(dominant[2])
                  ELSE shift_hue(base, 90)
    IN  << hsl_to_rgb(with_lightness(base, 1000)),
           hsl_to_rgb(adjust_saturation(with_lightness(complement, 2500), 7000)),
           hsl_to_rgb(with_lightness(accent, 4000)),
           hsl_to_rgb(adjust_saturation(with_lightness(base, 6000), 5000)) >>

generate_triadic(base) ==
    << hsl_to_rgb(with_lightness(base, 1200)),
       hsl_to_rgb(with_lightness(shift_hue(base, 120), 2800)),
       hsl_to_rgb(with_lightness(shift_hue(base, 240), 4200)),
       hsl_to_rgb(with_lightness(base, 5500)) >>

PaletteStrategies == {"Monochromatic", "Analogous", "Complementary", "Triadic"}

\* palette.rs has its own default_palette, with the colours of config.rs
palette_default_palette == <<Color_0E1228, Color_1348A5, Color_2B8CD6, Color_C2E6FF>>

\* mutant: the complementary strategy leaves out the accent colour
StrategyColors_NoAccent(base_hsl, dominant, strategy) ==
    IF strategy = "Monochromatic" THEN generate_monochromatic(base_hsl)
    ELSE IF strategy = "Analogous" THEN generate_analogous(base_hsl)
    ELSE IF strategy = "Complementary"
         THEN LET colors == generate_complementary(base_hsl, dominant)
              IN  <<colors[1], colors[2], colors[4]>>
    ELSE generate_triadic(base_hsl)

\* the match on the strategy
StrategyColors(base_hsl, dominant, strategy) ==
    IF strategy = "Monochromatic" THEN generate_monochromatic(base_hsl)
    ELSE IF strategy = "Analogous" THEN generate_analogous(base_hsl)
    ELSE IF strategy = "Complementary" THEN generate_complementary(base_hsl, dominant)
    ELSE generate_triadic(base_hsl)

generate_palette(dominant, strategy) ==
    IF dominant = <<>> THEN palette_default_palette
    ELSE LET colors == StrategyColors(rgb_to_hsl(dominant[1]), dominant, strategy)
         IN  [i \in 1..Len(colors) |-> rgba_to_hex(colors[i])]

DominantChannels == {0, 100, 255}

\* colours of every hue sector, greys, the fallback colour of the extraction
\* and the colour of the unit test
DominantColors ==
    {<<r, g, b, 255>> : r \in DominantChannels, g \in DominantChannels, b \in DominantChannels}
        \cup {FallbackColor, <<100, 50, 150, 255>>}

RECURSIVE SeqsUpTo(_, _)
SeqsUpTo(S, n) ==
    IF n = 0 THEN {<<>>}
    ELSE LET shorter == SeqsUpTo(S, n - 1)
         IN  shorter \cup {Append(q, e) : q \in shorter, e \in S}

GenerateInit ==
    /\ callArgs \in [dominant : SeqsUpTo(DominantColors, MaxDominant),
                     strategy : PaletteStrategies]
    /\ callResult = NotCalled
    /\ ColorIdle
    /\ BlendIdle
    /\ BgIdle
    /\ RunIdle

GeneratePalette ==
    /\ callResult = NotCalled
    /\ callResult' = [palette |-> generate_palette(callArgs.dominant, callArgs.strategy)]
    /\ UNCHANGED <<callArgs, colorVars, blendVars, bgVars, runVars, composeVars>>

GenerateNext == GeneratePalette

SpecGenerate == GenerateInit /\ [][GenerateNext]_vars

GenerateCalled == callResult # NotCalled /\ "palette" \in DOMAIN callResult

\* C20: generate_palette returns exactly 4 strings of the form #RRGGBB for
\* each of the four strategies and every non-empty dominant sequence, and the
\* default palette #0E1228, #1348A5, #2B8CD6, #C2E6FF for an empty one,
\* whatever the strategy.
C20_FourHexColors ==
    GenerateCalled =>
        /\ Len(callResult.palette) = 4
        /\ \A i \in 1..Len(callResult.palette) :
               /\ Len(callResult.palette[i]) = 7
               /\ callResult.palette[i][1] = "#"
               /\ \A k \in 2..7 : IsUpperHexDigit(callResult.palette[i][k])
        /\ callArgs.dominant = <<>> =>
               callResult.palette =
                   << <<"#", "0", "E", "1", "2", "2", "8">>,
                      <<"#", "1", "3", "4", "8", "A", "5">>,
                      <<"#", "2", "B", "8", "C", "D", "6">>,
                      <<"#", "C", "2", "E", "6", "F", "F">> >>

\* the complementary palette of two dominant colours: four different colours,
\* none of them of the default palette
C20_Witness ==
    /\ GenerateCalled
    /\ callArgs.strategy = "Complementary"
    /\ callArgs.dominant = << <<100, 50, 150, 255>>, <<255, 100, 0, 255>> >>
    /\ Cardinality({callResult.palette[i] : i \in 1..4}) = 4
    /\ \A i \in 1..4 : callResult.palette[i] # palette_default_palette[i]

\* the default palette for an empty dominant sequence
C20_DefaultWitness ==
    /\ GenerateCalled
    /\ callArgs.dominant = <<>>
    /\ callArgs.strategy = "Triadic"
    /\ callResult.palette[1] = Color_0E1228

\* the HSL steps of the Monochromatic palette of the call
MonochromaticOfCall == MonochromaticSteps(rgb_to_hsl(callArgs.dominant[1]))

MonochromaticCalled ==
    /\ GenerateCalled
    /\ callArgs.strategy = "Monochromatic"
    /\ callArgs.dominant # <<>>

\* C21: the Monochromatic strategy produces its 4 colours at lightness steps
\* increasing from 0.08 to 0.55, and the saturation multiplier applied to the
\* base saturation decreases from each step to the next.
C21_MonochromaticSteps ==
    MonochromaticCalled =>
        /\ MonochromaticOfCall[1].l = 800
        /\ MonochromaticOfCall[4].l = 5500
        /\ \A i \in 1..3 :
               /\ MonochromaticOfCall[i].l < MonochromaticOfCall[i + 1].l
               /\ MonochromaticFactors[i] > MonochromaticFactors[i + 1]
               /\ rgb_to_hsl(callArgs.dominant[1]).s > 0
                      => MonochromaticOfCall[i].s > MonochromaticOfCall[i + 1].s
        /\ callResult.palette =
               [i \in 1..4 |-> rgba_to_hex(hsl_to_rgb(MonochromaticOfCall[i]))]

----------------------------------------------------------------------------
(* devices.rs: resolve_phone_style on its own *)

\* the default frame colour written in lower case
Color_11151b == <<"#", "1", "1", "1", "5", "1", "b">>

StyleRadii == {DEFAULT_CORNER_RADIUS, 40}
StyleInsetValues(default_value) == {default_value, 10}
StyleColors == {DEFAULT_FRAME_COLOR, Color_11151b, Color_0E1228}
StyleBorders == {DEFAULT_FRAME_BORDER_WIDTH, 5}
StyleShadowOffsets == {DEFAULT_SHADOW_OFFSET_Y, -3}
StyleShadowAlphas == {DEFAULT_SHADOW_ALPHA, 0}

StylePhones ==
    { [model |-> m, x |-> PhoneX, y |-> PhoneY, width |-> 400, height |-> 800,
       corner_radius |-> radius,
       screen_padding |-> [top |-> t, right |-> r, bottom |-> b, left |-> l],
       frame_color |-> color, frame_border_width |-> border,
       shadow_offset_y |-> offset, shadow_alpha |-> alpha, overlay |-> "none"] :
        m \in PhoneModels \cup {NoModel}, radius \in StyleRadii,
        t \in StyleInsetValues(DEFAULT_INSETS.top),
        r \in StyleInsetValues(DEFAULT_INSETS.right),
        b \in StyleInsetValues(DEFAULT_INSETS.bottom),
        l \in StyleInsetValues(DEFAULT_INSETS.left),
        color \in StyleColors, border \in StyleBorders,
        offset \in StyleShadowOffsets, alpha \in StyleShadowAlphas }

StyleInit ==
    /\ callArgs \in [phone : StylePhones]
    /\ callResult = NotCalled
    /\ ColorIdle
    /\ BlendIdle
    /\ BgIdle
    /\ RunIdle

ResolvePhoneStyle ==
    /\ callResult = NotCalled
    /\ callResult' = [style |-> resolve_phone_style(callArgs.phone)]
    /\ UNCHANGED <<callArgs, colorVars, blendVars, bgVars, runVars, composeVars>>

StyleNext == ResolvePhoneStyle

SpecStyle == StyleInit /\ [][StyleNext]_vars

StyleCalled == callResult # NotCalled /\ "style" \in DOMAIN callResult

\* the rule for one field: the profile's value when the raw value is the
\* default, the raw value otherwise
Sentinel(raw, default_value, device_value, resolved) ==
    IF raw = default_value THEN resolved = device_value ELSE resolved = raw

\* C22: with a device model, every overridable field of the resolved style
\* (corner radius, each of the four insets on its own, frame colour, border
\* width, shadow offset, shadow alpha) is the profile's value when the raw
\* field equals the global default of the field and the raw value otherwise,
\* and the cutout geometry is the profile's; without a model every field is
\* the raw value and there is no cutout.  Colour strings are equal when they
\* differ only in the case of their hex digits.
C22_DefaultSentinel ==
    StyleCalled =>
        LET phone == callArgs.phone
            style == callResult.style
            profile == profile_for(phone.model)
        IN  IF phone.model = NoModel
            THEN /\ style.corner_radius = phone.corner_radius
                 /\ style.screen_padding = phone.screen_padding
                 /\ style.frame_color = phone.frame_color
                 /\ style.frame_border_width = phone.frame_border_width
                 /\ style.shadow_offset_y = phone.shadow_offset_y
                 /\ style.shadow_alpha = phone.shadow_alpha
                 /\ ~style.has_island
            ELSE /\ Sentinel(phone.corner_radius, 88, profile.corner_radius,
                             style.corner_radius)
                 /\ Sentinel(phone.screen_padding.top, 28, profile.screen_padding.top,
                             style.screen_padding.top)
                 /\ Sentinel(phone.screen_padding.right, 20, profile.screen_padding.right,
                             style.screen_padding.right)
                 /\ Sentinel(phone.screen_padding.bottom, 28, profile.screen_padding.bottom,
                             style.screen_padding.bottom)
                 /\ Sentinel(phone.screen_padding.left, 20, profile.screen_padding.left,
                             style.screen_padding.left)
                 /\ IF phone.frame_color \in {Color_11151B, Color_11151b}
                    THEN style.frame_color = profile.frame_color
                    ELSE style.frame_color = phone.frame_color
                 /\ Sentinel(phone.frame_border_width, 8, profile.frame_border_width,
                             style.frame_border_width)
                 /\ Sentinel(phone.shadow_offset_y, 18, profile.shadow_offset_y,
                             style.shadow_offset_y)
                 /\ Sentinel(phone.shadow_alpha, 74, profile.shadow_alpha,
                             style.shadow_alpha)
                 /\ style.has_island
                 /\ style.island = profile.island

\* a model with one inset set by the user: that inset is kept, the other
\* three come from the profile
C22_Witness ==
    /\ StyleCalled
    /\ callArgs.phone.model = "Iphone16Pro"
    /\ callArgs.phone.screen_padding = [top |-> 10, right |-> 20, bottom |-> 28, left |-> 20]
    /\ callResult.style.screen_padding = [top |-> 10, right |-> 28, bottom |-> 40, left |-> 28]
    /\ callArgs.phone.frame_color = Color_11151b
    /\ callResult.style.frame_color = Color_7A7F89

----------------------------------------------------------------------------
(* color.rs: the values that Hsl::new and the methods built on it return *)

MaxHslOps == 2

\* input hues in degrees: negative, inside the circle, on and past its end
HslHues == {-370 * Unit, -10 * Unit, 0, 90 * Unit, 360 * Unit - 1, 360 * Unit, 725 * Unit}

\* input saturations and lightnesses: below, inside and above [0, 1]
HslFractions == {0 - Unit \div 2, 0, Unit \div 2, Unit, Unit + Unit \div 2}

\* the shifts of the palette strategies and one of more than a full turn
HslShifts == {-400, -25, 15, 25, 90, 120, 180, 240}

\* the factors of generate_complementary
HslFactors == {5000, 7000}

HslInit ==
    /\ callArgs \in [h : HslHues, s : HslFractions, l : HslFractions]
    /\ callResult = NotCalled
    /\ ColorIdle
    /\ BlendIdle
    /\ BgIdle
    /\ RunIdle

HslBuilt == callResult # NotCalled /\ "hsl" \in DOMAIN callResult

HslStep(hsl) ==
    /\ HslBuilt
    /\ callResult.ops < MaxHslOps
    /\ callResult' = [hsl |-> hsl, ops |-> callResult.ops + 1]
    /\ UNCHANGED <<callArgs, colorVars, blendVars, bgVars, runVars, composeVars>>

HslNew ==
    /\ callResult = NotCalled
    /\ callResult' = [hsl |-> Hsl_new(callArgs.h, callArgs.s, callArgs.l), ops |-> 0]
    /\ UNCHANGED <<callArgs, colorVars, blendVars, bgVars, runVars, composeVars>>

RgbToHsl ==
    /\ callResult = NotCalled
    /\ \E rgba \in DominantColors : callResult' = [hsl |-> rgb_to_hsl(rgba), ops |-> 0]
    /\ UNCHANGED <<callArgs, colorVars, blendVars, bgVars, runVars, composeVars>>

ShiftHue == \E degrees \in HslShifts : HslStep(shift_hue(callResult.hsl, degrees))

AdjustSaturation == \E factor \in HslFactors : HslStep(adjust_saturation(callResult.hsl, factor))

WithLightness == \E l \in HslFractions : HslStep(with_lightness(callResult.hsl, l))

WithSaturation == \E s \in HslFractions : HslStep(with_saturation(callResult.hsl, s))

HslNext ==
    \/ HslNew
    \/ RgbToHsl
    \/ ShiftHue
    \/ AdjustSaturation
    \/ WithLightness
    \/ WithSaturation

SpecHsl == HslInit /\ [][HslNext]_vars

\* C23: every HSL value built by Hsl::new, and so by shift_hue,
\* adjust_saturation, with_lightness, with_saturation and rgb_to_hsl, has its
\* hue in [0, 360) and its saturation and lightness in [0, 1], for every
\* input hue, negative ones and ones of 360 and more included.
C23_HslNormalised ==
    HslBuilt =>
        /\ 0 <= callResult.hsl.h
        /\ callResult.hsl.h < 360 * Unit
        /\ 0 <= callResult.hsl.s
        /\ callResult.hsl.s <= Unit
        /\ 0 <= callResult.hsl.l
        /\ callResult.hsl.l <= Unit

----------------------------------------------------------------------------
(* pipeline.rs: what a failure of run() says about its scene *)

FailureTaxonomy ==
    {"InvalidCanvasSize", "InsufficientPalette", "InvalidColorFormat", "NoScreenSpace",
     "FontLoadFailure", "OverlayDecodeFailure"}

\* C24: every failure of the taxonomy (InvalidCanvasSize, InsufficientPalette,
\* InvalidColorFormat, NoScreenSpace, FontLoadFailure, OverlayDecodeFailure)
\* raised while a scene is rendered or composed is reported with the
\* identifier of the scene it comes from.
C24_FailureNamesScene ==
    (/\ runResult.status = "error"
     /\ runResult.kind \in FailureTaxonomy
     /\ runResult.stage \in {"background", "compose"})
        => runResult.names_scene

----------------------------------------------------------------------------
(* palette.rs: extract_dominant_colors called twice on one bitmap *)

\* The second call builds a HashMap of its own, whose iteration order is
\* chosen anew.
ExtractAgain ==
    /\ ExtractCalled
    /\ "again" \notin DOMAIN callResult
    /\ \E sorted \in SortedOrders(Histogram(Samples(callArgs.image))) :
           callResult' = [colors |-> callResult.colors,
                          again |-> extract_dominant_colors(callArgs.image,
                                                            callArgs.count, sorted)]
    /\ UNCHANGED <<callArgs, colorVars, blendVars, bgVars, runVars, composeVars>>

RepeatNext == ExtractDominantColors \/ ExtractAgain

SpecRepeat == PaletteInit /\ [][RepeatNext]_vars

\* C25: two calls of extract_dominant_colors on the same bitmap with the same
\* count return the same colours in the same order, also when several bins
\* have the same frequency.
C25_SameResult ==
    (ExtractCalled /\ "again" \in DOMAIN callResult) => callResult.again = callResult.colors

----------------------------------------------------------------------------
(* frames.rs: verify_overlays *)

MaxVerifyScenes == 2

\* What verify_overlays can find at a candidate path: nothing, or a file with
\* or without the .png extension that fails to decode or decodes to a bitmap
\* with or without a transparent pixel, of the phone's size or another.
VerifyFiles ==
    {[exists |-> FALSE, png |-> TRUE, decodes |-> FALSE, transparent |-> FALSE,
      same_size |-> FALSE]}
    \cup [exists : {TRUE}, png : BOOLEAN, decodes : {FALSE}, transparent : {FALSE},
          same_size : {FALSE}]
    \cup [exists : {TRUE}, png : BOOLEAN, decodes : {TRUE}, transparent : BOOLEAN,
          same_size : BOOLEAN]

\* a scene as verify_overlays sees it: whether phone.overlay is set, whether
\* phone.model is set, and the file at the candidate path
VerifyScenes ==
    [overlay : {"explicit"}, model : {NoModel, "Iphone16Pro"}, file : VerifyFiles]
    \cup [overlay : {"none"}, model : {"Iphone16Pro"}, file : VerifyFiles]
    \cup [overlay : {"none"}, model : {NoModel}, file : {CHOOSE f \in VerifyFiles : ~f.exists}]

\* the source of the overlay, or "none"
resolve_overlay_for_verify(sc) ==
    IF sc.overlay = "explicit" THEN "Explicit"
    ELSE IF sc.model = NoModel THEN "none"
    ELSE "ModelDefault"

\* mutant: warnings are listed but not counted
push_issue_ErrorsOnly(summary, scene_id, level, message) ==
    [summary EXCEPT
        !.errors = IF level = "Error" THEN @ + 1 ELSE @,
        !.issues = Append(@, [scene_id |-> scene_id, level |-> level, message |-> message])]

push_issue(summary, scene_id, level, message) ==
    [summary EXCEPT
        !.warnings = IF level = "Warning" THEN @ + 1 ELSE @,
        !.errors = IF level = "Error" THEN @ + 1 ELSE @,
        !.issues = Append(@, [scene_id |-> scene_id, level |-> level, message |-> message])]

PushIf(cond, summary, scene_id, level, message) ==
    IF cond THEN push_issue(summary, scene_id, level, message) ELSE summary

\* the body of the loop for the scene at position scene_id
verify_scene(summary, sc, scene_id) ==
    LET source == resolve_overlay_for_verify(sc)
        counted == [summary EXCEPT !.checked_overlays = @ + 1]
        file == sc.file
    IN  IF source = "none" THEN summary
        ELSE IF ~file.exists
        THEN IF source = "Explicit"
             THEN push_issue(counted, scene_id, "Error", "overlay not found")
             ELSE push_issue(counted, scene_id, "Warning", "no auto overlay for model")
        ELSE LET named == PushIf(~file.png, counted, scene_id, "Warning",
                                 "overlay should be a PNG")
             IN  IF ~file.decodes
                 THEN push_issue(named, scene_id, "Error", "failed reading overlay")
                 ELSE PushIf(~file.same_size,
                             PushIf(~file.transparent, named, scene_id, "Error",
                                    "overlay has no transparency"),
                             scene_id, "Warning", "overlay size does not match phone rect")

\* VerifySummary::failed
failed(summary, strict) == summary.errors > 0 \/ (strict /\ summary.warnings > 0)

RECURSIVE SeqsOfLen(_, _)
SeqsOfLen(S, n) ==
    IF n = 0 THEN {<<>>} ELSE {Append(q, e) : q \in SeqsOfLen(S, n - 1), e \in S}

VerifyInit ==
    /\ callArgs \in [scenes : UNION {SeqsOfLen(VerifyScenes, n) : n \in 0..MaxVerifyScenes}]
    /\ callResult = NotCalled
    /\ ColorIdle
    /\ BlendIdle
    /\ BgIdle
    /\ RunIdle

\* the configuration is loaded and the summary is created
VerifyStart ==
    /\ callResult = NotCalled
    /\ callResult' = [summary |-> [scene_count |-> Len(callArgs.scenes),
                                   checked_overlays |-> 0, warnings |-> 0, errors |-> 0,
                                   issues |-> <<>>],
                      done |-> 0]
    /\ UNCHANGED <<callArgs, colorVars, blendVars, bgVars, runVars, composeVars>>

\* one iteration of the loop over the scenes
VerifyScene ==
    /\ callResult # NotCalled
    /\ "summary" \in DOMAIN callResult
    /\ callResult.done < Len(callArgs.scenes)
    /\ callResult' = [summary |-> verify_scene(callResult.summary,
                                               callArgs.scenes[callResult.done + 1],
                                               callResult.done + 1),
                      done |-> callResult.done + 1]
    /\ UNCHANGED <<callArgs, colorVars, blendVars, bgVars, runVars, composeVars>>

VerifyNext == VerifyStart \/ VerifyScene

SpecVerify == VerifyInit /\ [][VerifyNext]_vars

VerifyStarted == callResult # NotCalled /\ "summary" \in DOMAIN callResult

\* the levels of the issues raised for the scene at a position
IssueLevels(scene_id) ==
    LET OfScene(issue) == issue.scene_id = scene_id
        mine == SelectSeq(callResult.summary.issues, OfScene)
    IN  [i \in 1..Len(mine) |-> mine[i].level]

CountLevel(level) ==
    Cardinality({i \in 1..Len(callResult.summary.issues) :
                    callResult.summary.issues[i].level = level})

\* C26: for every scene gone through, an explicit overlay path that does not
\* exist gives exactly one Error; a missing model-default overlay gives
\* exactly one Warning and no Error; an existing overlay of another size than
\* the phone rectangle gives a Warning.  Whatever the scenes, summary.errors
\* and summary.warnings are the numbers of issues of their level,
\* checked_overlays <= scene_count, and failed(strict) is true iff errors > 0
\* or strict and warnings > 0.
C26_VerifyClassifies ==
    VerifyStarted =>
        /\ \A i \in 1..callResult.done :
               LET sc == callArgs.scenes[i]
               IN  /\ (sc.overlay = "explicit" /\ ~sc.file.exists)
                          => IssueLevels(i) = <<"Error">>
                   /\ (sc.overlay = "none" /\ sc.model # NoModel /\ ~sc.file.exists)
                          => IssueLevels(i) = <<"Warning">>
                   /\ (/\ sc.overlay = "explicit" \/ sc.model # NoModel
                       /\ sc.file.exists
                       /\ sc.file.decodes
                       /\ ~sc.file.same_size)
                          => \E k \in 1..Len(IssueLevels(i)) : IssueLevels(i)[k] = "Warning"
        /\ callResult.summary.errors = CountLevel("Error")
        /\ callResult.summary.warnings = CountLevel("Warning")
        /\ callResult.summary.checked_overlays <= callResult.summary.scene_count
        /\ callResult.summary.scene_count = Len(callArgs.scenes)
        /\ failed(callResult.summary, FALSE) <=> CountLevel("Error") > 0
        /\ failed(callResult.summary, TRUE)
               <=> (CountLevel("Error") > 0 \/ CountLevel("Warning") > 0)

\* a missing model-default overlay followed by an opaque overlay of another
\* size: two warnings and one error, so both modes fail
C26_Witness ==
    /\ VerifyStarted
    /\ callResult.done = 2
    /\ callArgs.scenes[1].overlay = "none"
    /\ ~callArgs.scenes[1].file.exists
    /\ callArgs.scenes[2].overlay = "explicit"
    /\ callArgs.scenes[2].file.decodes
    /\ IssueLevels(1) = <<"Warning">>
    /\ IssueLevels(2) = <<"Error", "Warning">>
    /\ callResult.summary.warnings = 2
    /\ callResult.summary.errors = 1
    /\ callResult.summary.checked_overlays = 2

\* warnings only: the run fails in strict mode and passes otherwise
C26_StrictWitness ==
    /\ VerifyStarted
    /\ callResult.done = 1
    /\ callResult.summary.warnings = 1
    /\ callResult.summary.errors = 0
    /\ failed(callResult.summary, TRUE)
    /\ ~failed(callResult.summary, FALSE)

----------------------------------------------------------------------------
(* frames.rs: import_frames *)

MaxImportFiles == 2

\* the characters of the file names, in the order of their bytes
NameChars == <<"-", ".", "1", "A", "B", "G", "N", "P", "_", "a", "b", "g", "n", "p", "t", "x">>

ByteRank(c) == CHOOSE i \in 1..Len(NameChars) : NameChars[i] = c

UpperLetters == <<"A", "B", "G", "N", "P">>
LowerLetters == <<"a", "b", "g", "n", "p">>

\* char::to_ascii_lowercase
to_ascii_lowercase(c) ==
    IF \E i \in 1..Len(UpperLetters) : UpperLetters[i] = c
    THEN LowerLetters[CHOOSE i \in 1..Len(UpperLetters) : UpperLetters[i] = c]
    ELSE c

\* char::is_ascii_alphanumeric
is_ascii_alphanumeric(c) == c \notin {"-", ".", "_"}

\* the loop of normalize_frame_slug over the characters from position i
RECURSIVE SlugLoop(_, _, _, _)
SlugLoop(stem, i, out, previous_was_sep) ==
    IF i > Len(stem) THEN out
    ELSE IF is_ascii_alphanumeric(stem[i])
    THEN SlugLoop(stem, i + 1, Append(out, to_ascii_lowercase(stem[i])), FALSE)
    ELSE IF ~previous_was_sep THEN SlugLoop(stem, i + 1, Append(out, "_"), TRUE)
    ELSE SlugLoop(stem, i + 1, out, previous_was_sep)

\* str::trim_matches('_')
RECURSIVE TrimUnderscores(_)
TrimUnderscores(str) ==
    IF str = <<>> THEN str
    ELSE IF Head(str) = "_" THEN TrimUnderscores(Tail(str))
    ELSE IF str[Len(str)] = "_" THEN TrimUnderscores(SubSeq(str, 1, Len(str) - 1))
    ELSE str

normalize_frame_slug(stem) == TrimUnderscores(SlugLoop(stem, 1, <<>>, FALSE))

\* the extension is "png" in any case of its letters
is_png_file(file) ==
    /\ Len(file.ext) = 3
    /\ \A i \in 1..3 : to_ascii_lowercase(file.ext[i]) = <<"p", "n", "g">>[i]

file_name(file) == file.stem \o <<".">> \o file.ext

\* the order of OsString: byte by byte, a prefix first
RECURSIVE NameLess(_, _)
NameLess(a, b) ==
    IF b = <<>> THEN FALSE
    ELSE IF a = <<>> THEN TRUE
    ELSE IF Head(a) = Head(b) THEN NameLess(Tail(a), Tail(b))
    ELSE ByteRank(Head(a)) < ByteRank(Head(b))

\* entries.sort_by_key(|entry| entry.file_name()): the names of a directory
\* differ, so there is one sorted order
SortedEntries(files) ==
    CHOOSE entries \in [1..Cardinality(files) -> files] :
        \A i, j \in 1..Cardinality(files) :
            i < j => NameLess(file_name(entries[i]), file_name(entries[j]))

\* mutant: the destination is never looked at
destination_blocks_Never(destination, slug, overwrite) == FALSE

\* dest_path.exists() && !overwrite
destination_blocks(destination, slug, overwrite) ==
    slug \in DOMAIN destination /\ ~overwrite

Note(kind, file) == [kind |-> kind, file |-> file_name(file)]

\* One iteration of the loop.  The destination directory is a function from
\* the slugs of its files to their contents: "old" for a file that was there
\* before the import, the name of the source file for a copy.
import_entry(st, file, overwrite) ==
    LET slug == normalize_frame_slug(file.stem)
        skip == [st EXCEPT !.skipped = @ + 1, !.notes = Append(@, Note("skip", file))]
    IN  IF file.kind # "file" THEN st
        ELSE IF ~is_png_file(file) THEN skip
        ELSE IF slug = <<>> THEN skip
        ELSE IF ~file.decodes \/ ~file.transparent THEN skip
        ELSE IF destination_blocks(st.destination, slug, overwrite) THEN skip
        ELSE [st EXCEPT
                 !.destination = [d \in DOMAIN st.destination \cup {slug} |->
                                     IF d = slug THEN file_name(file) ELSE st.destination[d]],
                 !.imported = @ + 1,
                 !.notes = Append(@, Note("import", file))]

ImportStems ==
    { <<"A">>, <<"a">>, <<"a", "-">>, <<"-">>, <<"a", "-", "-", "B">>, <<"a", "_", "b">> }

ImportExtensions == { <<"p", "n", "g">>, <<"P", "N", "G">>, <<"t", "x", "t">> }

\* a directory, or a regular file that does not decode, decodes to an opaque
\* bitmap or decodes to one with a transparent pixel
ImportContents ==
    { [kind |-> "dir", decodes |-> FALSE, transparent |-> FALSE],
      [kind |-> "file", decodes |-> FALSE, transparent |-> FALSE],
      [kind |-> "file", decodes |-> TRUE, transparent |-> FALSE],
      [kind |-> "file", decodes |-> TRUE, transparent |-> TRUE] }

ImportFiles ==
    { [stem |-> stem, ext |-> ext, kind |-> c.kind, decodes |-> c.decodes,
       transparent |-> c.transparent] :
        stem \in ImportStems, ext \in ImportExtensions, c \in ImportContents }

\* the listings of a source directory: up to MaxImportFiles entries with
\* different names
RECURSIVE SubsetsUpTo(_, _)
SubsetsUpTo(S, n) ==
    IF n = 0 THEN {{}}
    ELSE LET smaller == SubsetsUpTo(S, n - 1)
         IN  smaller \cup {T \cup {e} : T \in smaller, e \in S}

ImportSources ==
    { files \in SubsetsUpTo(ImportFiles, MaxImportFiles) :
        \A f, g \in files : file_name(f) = file_name(g) => f = g }

\* the slugs of the files in the destination before the import
ImportDestinations == SUBSET { <<"a">>, <<"a", "_", "b">> }

ImportInit ==
    /\ callArgs \in [source : ImportSources, destination : ImportDestinations,
                     overwrite : BOOLEAN]
    /\ callResult = NotCalled
    /\ ColorIdle
    /\ BlendIdle
    /\ BgIdle
    /\ RunIdle

\* the source is listed and sorted
ImportStart ==
    /\ callResult = NotCalled
    /\ callResult' = [entries |-> SortedEntries(callArgs.source),
                      destination |-> [d \in callArgs.destination |-> "old"],
                      imported |-> 0, skipped |-> 0, notes |-> <<>>, done |-> 0]
    /\ UNCHANGED <<callArgs, colorVars, blendVars, bgVars, runVars, composeVars>>

ImportEntry ==
    /\ callResult # NotCalled
    /\ "entries" \in DOMAIN callResult
    /\ callResult.done < Len(callResult.entries)
    /\ callResult' = [import_entry(callResult, callResult.entries[callResult.done + 1],
                                   callArgs.overwrite)
                          EXCEPT !.done = @ + 1]
    /\ UNCHANGED <<callArgs, colorVars, blendVars, bgVars, runVars, composeVars>>

ImportNext == ImportStart \/ ImportEntry

SpecImport == ImportInit /\ [][ImportNext]_vars

ImportStarted == callResult # NotCalled /\ "entries" \in DOMAIN callResult

\* the regular files among the entries gone through, in order
RegularDone ==
    LET IsRegular(f) == f.kind = "file"
    IN  SelectSeq(SubSeq(callResult.entries, 1, callResult.done), IsRegular)

\* the j-th regular file passes the tests on the file itself
ImportEligible(j) ==
    /\ RegularDone[j].ext \in { <<"p", "n", "g">>, <<"P", "N", "G">> }
    /\ normalize_frame_slug(RegularDone[j].stem) # <<>>
    /\ RegularDone[j].decodes
    /\ RegularDone[j].transparent

ImportedAt(j) == callResult.notes[j].kind = "import"

SlugAt(j) == normalize_frame_slug(RegularDone[j].stem)

\* <slug>.png was not in the destination when the j-th regular file was read
DestinationFree(j) ==
    /\ SlugAt(j) \notin callArgs.destination
    /\ \A k \in 1..(j - 1) : ~(ImportedAt(k) /\ SlugAt(k) = SlugAt(j))

\* C27: import_frames copies a regular file of the source iff it has a .png
\* extension, its name normalises to a non-empty slug, it decodes with at
\* least one pixel of alpha < 255, and <slug>.png does not exist in the
\* destination or overwrite is set; every other regular file is counted as
\* skipped and leaves the destination as it is, so imported + skipped is the
\* number of regular files, and without overwrite no file that already
\* exists in the destination, one written earlier in the same import
\* included, is modified.
C27_ImportFrames ==
    ImportStarted =>
        /\ Len(callResult.notes) = Len(RegularDone)
        /\ \A j \in 1..Len(RegularDone) :
               /\ callResult.notes[j].file = file_name(RegularDone[j])
               /\ ImportedAt(j)
                      <=> (ImportEligible(j) /\ (DestinationFree(j) \/ callArgs.overwrite))
        /\ callResult.imported = Cardinality({j \in 1..Len(RegularDone) : ImportedAt(j)})
        /\ callResult.imported + callResult.skipped = Len(RegularDone)
        /\ callResult.done = Len(callResult.entries)
               => callResult.imported + callResult.skipped =
                      Cardinality({f \in callArgs.source : f.kind = "file"})
        /\ DOMAIN callResult.destination =
               callArgs.destination \cup {SlugAt(j) : j \in {k \in 1..Len(RegularDone) : ImportedAt(k)}}
        /\ \A d \in DOMAIN callResult.destination :
               LET copies == {j \in 1..Len(RegularDone) : ImportedAt(j) /\ SlugAt(j) = d}
               IN  IF copies = {} THEN callResult.destination[d] = "old"
                   ELSE /\ callResult.destination[d] =
                               file_name(RegularDone[CHOOSE j \in copies :
                                                         \A k \in copies : k <= j])
                        /\ ~callArgs.overwrite
                               => (Cardinality(copies) = 1 /\ d \notin callArgs.destination)

\* two files of one slug without overwrite: the first is copied, the second
\* is skipped and the copy stays
C27_Witness ==
    /\ ImportStarted
    /\ ~callArgs.overwrite
    /\ callArgs.destination = {}
    /\ callResult.done = 2
    /\ callResult.notes = << [kind |-> "import", file |-> <<"A", ".", "p", "n", "g">>],
                             [kind |-> "skip", file |-> <<"a", ".", "P", "N", "G">>] >>
    /\ callResult.destination = [d \in {<<"a">>} |-> <<"A", ".", "p", "n", "g">>]

\* with overwrite an old file of the destination is replaced
C27_OverwriteWitness ==
    /\ ImportStarted
    /\ callArgs.overwrite
    /\ callArgs.destination = {<<"a", "_", "b">>}
    /\ callResult.imported = 1
    /\ callResult.destination =
           [d \in {<<"a", "_", "b">>} |-> <<"a", "-", "-", "B", ".", "p", "n", "g">>]

----------------------------------------------------------------------------
(* Claims about the files of a pipeline run *)

RunSucceeded == pc = "done" /\ runResult # NotCalled /\ runResult.status = "ok"

\* the files of the final directory written by this run
FinalFiles == { finalWrites[i].filename : i \in 1..Len(finalWrites) }

\* C28: after a successful run over n scenes every scene has its own final
\* image: the scene ids are pairwise distinct, scene_count = n, the preview
\* has n items in scene order, and no final image written for a scene has
\* been overwritten by a later scene of the run, so n distinct final image
\* files exist.
C28_OwnFinalImage ==
    RunSucceeded =>
        /\ runResult.scene_count = nScenes
        /\ Len(previewItems) = nScenes
        /\ \A i, j \in 1..Len(previewItems) :
               i # j => previewItems[i].scene_id # previewItems[j].scene_id
        /\ Len(finalWrites) = nScenes
        /\ \A i \in 1..Len(finalWrites) :
               /\ finalWrites[i].scene_index = i
               /\ previewItems[i].filename = finalWrites[i].filename
        /\ \A i, j \in 1..Len(finalWrites) :
               i < j => finalWrites[j].filename # finalWrites[i].filename
        /\ Cardinality(FinalFiles) = nScenes

----------------------------------------------------------------------------
(* Claims about the screen rectangle *)

\* C29: whenever compose_scene passes the NoScreenSpace check, the screen
\* rectangle it blends the screenshot into has a width and a height of at
\* least 1 and lies inside the frame rectangle: phone.x <= screen_x,
\* screen_x + screen_w <= phone.x + phone.width, phone.y <= screen_y and
\* screen_y + screen_h <= phone.y + phone.height, with and without the inset
\* adjustment of an overlay.
C29_ScreenInsideFrame ==
    ComposeCalled =>
        \A i \in 1..Len(drawLog) :
            drawLog[i].op = "screenshot" =>
                /\ drawLog[i].w >= 1
                /\ drawLog[i].h >= 1
                /\ ComposedPhone.x <= drawLog[i].x
                /\ drawLog[i].x + drawLog[i].w <= ComposedPhone.x + ComposedPhone.width
                /\ ComposedPhone.y <= drawLog[i].y
                /\ drawLog[i].y + drawLog[i].h <= ComposedPhone.y + ComposedPhone.height

\* a frame of width 88 around an Iphone16ProMax overlay: the adjusted insets
\* of 38 on each side leave a screen of width 12
C29_Witness ==
    /\ ComposeCalled
    /\ OverlayResolved
    /\ ComposedPhone.model = "Iphone16ProMax"
    /\ ComposedPhone.width = 88
    /\ \E i \in 1..Len(drawLog) :
           /\ drawLog[i].op = "screenshot"
           /\ drawLog[i].x = ComposedPhone.x + 38
           /\ drawLog[i].w = 12
           /\ inset_adjust(ComposedPhone, ComposedOverlay) = <<12, 6>>

----------------------------------------------------------------------------
(* Claims about the symmetry of the rounded rectangle *)

InsideInBox ==
    /\ InsideCalled
    /\ callArgs.w >= 1 /\ callArgs.h >= 1
    /\ 0 <= callArgs.px /\ callArgs.px < callArgs.w
    /\ 0 <= callArgs.py /\ callArgs.py < callArgs.h

\* C30: the rounded-rectangle mask is mirror-symmetric: for every w, h >= 1,
\* every radius and every point with 0 <= px < w and 0 <= py < h,
\* inside_rounded_rect gives the same answer at (px, py), at the point
\* mirrored left to right (w - 1 - px, py) and at the point mirrored top to
\* bottom (px, h - 1 - py), so the four corners are cut alike.
C30_MaskSymmetric ==
    InsideInBox =>
        /\ callResult.inside =
               inside_rounded_rect(callArgs.w - 1 - callArgs.px, callArgs.py,
                                   callArgs.w, callArgs.h, callArgs.radius)
        /\ callResult.inside =
               inside_rounded_rect(callArgs.px, callArgs.h - 1 - callArgs.py,
                                   callArgs.w, callArgs.h, callArgs.radius)

\* the top left corner point of a box of odd width is cut, and so are its
\* mirror images, while the point next to it is kept
C30_Witness ==
    /\ InsideInBox
    /\ callArgs.w = 9 /\ callArgs.h = 10
    /\ callArgs.px = 0 /\ callArgs.py = 0
    /\ callArgs.radius >= 4
    /\ ~callResult.inside
    /\ ~inside_rounded_rect(8, 0, 9, 10, callArgs.radius)
    /\ ~inside_rounded_rect(0, 9, 9, 10, callArgs.radius)
    /\ inside_rounded_rect(1, 0, 9, 10, callArgs.radius)


====
